---- MODULE Spec2Model ----
(***************************************************************************)
(* ReAct executor loop of mzattera/file-exchange (Nikhil/...).             *)
(*                                                                         *)
(* The repository holds two drafts of ExecutorModule.execute:              *)
(*   "python": src/Nikhil/python/executor_modlue.py                        *)
(*   "java"  : src/Nikhil/java/src/main/resources/python/executor_modlue.py*)
(* Both are modelled; the variable draft says which one a behaviour runs.  *)
(*                                                                         *)
(* Texts are sequences of tokens.  Texts whose characters the code looks   *)
(* at (tool results, reviewer replies, exception texts) are spelled one    *)
(* character per token; literals of the program that no code inspects are  *)
(* kept as one token holding the literal.                                  *)
(*                                                                         *)
(* Besides the executor loop (Spec) the module follows the tool lifecycle  *)
(* (LifeSpec), the agent used as a tool of another agent (NestSpec), the   *)
(* Reviewer's double query (CriticSpec), the JSON round trip of a step     *)
(* (SerSpec), the conversation of the Agent base class (AgentSpec), the    *)
(* slot templates (SlotSpec) and the PEACE task APIs (PeaceSpec).  Each    *)
(* specification moves its own variables and keeps the other components    *)
(* at rest.                                                                *)
(***************************************************************************)
EXTENDS Integers, Sequences, FiniteSets, TLC

\* ------------------------------------------------------------------ bounds
\* Step budget of the executor.  The source sets 40; the model runs the same
\* loop with a small budget so that every boundary of the budget is reached.
MAX_STEPS == 4

\* Largest number of tool calls in one model reply.
MaxBatch == 3

\* the lifecycle calls (init, close, invoke) followed on the tools
MaxOps == 4

\* ------------------------------------------------------------------ texts
Uppers == <<"A","B","C","D","E","F","G","H","I","J","K","L","M",
            "N","O","P","Q","R","S","T","U","V","W","X","Y","Z">>

Lowers == <<"a","b","c","d","e","f","g","h","i","j","k","l","m",
            "n","o","p","q","r","s","t","u","v","w","x","y","z">>

\* str.lower() on one character
LowerChar(c) ==
    IF \E i \in 1..26 : Uppers[i] = c
    THEN Lowers[CHOOSE i \in 1..26 : Uppers[i] = c]
    ELSE c

\* str.lower()
Lower(s) == [i \in 1..Len(s) |-> LowerChar(s[i])]

\* pat in s
Contains(s, pat) ==
    \E i \in 1..(Len(s) - Len(pat) + 1) : SubSeq(s, i, i + Len(pat) - 1) = pat

\* Python None where a status or an exception name is expected
None == "None"

\* Python None where a text is expected: a reserved token no text contains
NoneText == <<"<None>">>

\* Python None where a Step is expected
NoStep == [cls |-> "None"]

\* float("inf") where a length limit is expected
Inf == -1

\* Python None where a list of tasks is expected: a list holding a reserved
\* task that no scenario contains
NoTasks == <<[time_created |-> <<"<None>">>, customer_number |-> <<"<None>">>]>>

CONTINUE == <<"C","O","N","T","I","N","U","E">>

\* initial suggestion of the java draft
NO_SUGGESTIONS ==
    <<"No suggestions. Proceed as you see best, using the tools at your disposal.">>

\* suggestion after a non-tool step, python draft
STRICT_PYTHON ==
    <<"**STRICTLY** if further actions are needed, proceed by calling appropriate tools, otherwise output a final step with status=\"COMPLETED\". Do not output same step repeatedly.">>

\* suggestion after a non-tool IN_PROGRESS step, java draft
STRICT_JAVA ==
    <<"**STRICTLY** proceed with next steps, by calling appropriate tools.">>

\* ------------------------------------------------------------------ inputs
Drafts == {"python", "java"}

Command == <<"book a flight">>

AgentId == "agent"

\* self.id of the executor: f"{agent.id}-executor"
ExecutorId == "agent-executor"

\* actor values a model may put in a step
ModelActors == {"agent-executor", "searchFlights"}

\* str(exc) of an exception raised by the gateway
ExcTexts == {<< >>, <<"b","o","o","m">>}

\* finish reasons _map_finish_reason can produce besides COMPLETED
FailedFinishReasons == {"truncated", "inappropriate", "other"}

\* status values a parsed Step may carry
ModelStatuses == {None, "IN_PROGRESS", "COMPLETED", "ERROR"}

\* text of a reply that is not a Step
RawTexts == {<< >>, <<"n","o","t"," ","j","s","o","n">>}

\* replies of the Reviewer
ReviewerReplies ==
    { CONTINUE,
      <<"R","e","t","r","y">> }

ToolIds == {"searchFlights", "getWeather"}

\* argument maps of a tool call, as insertion-ordered key/value pairs
ArgumentMaps ==
    { << <<"city", <<"Rome">> >> >>,
      << <<"thought", <<"look up">> >>, <<"city", <<"Rome">> >> >>,
      << <<"thought", << >> >> >> }

\* result texts a tool returns (ToolCallResult.result): searchFlights answers
\* or raises, getWeather never raises but may report a failure in its text,
\* return nothing, or return the empty text
ToolResults(tool) ==
    IF tool = "searchFlights"
    THEN { <<"o","k">> }
    ELSE { NoneText, << >>, <<"a","n"," ","E","R","R","O","R">> }

\* str(exc) of the exceptions a tool raises
ToolExcTexts(tool) ==
    IF tool = "searchFlights" THEN { <<"b","o","o","m">> } ELSE { }

VARIABLES
    draft,            \* which draft of execute runs
    check_last_step,  \* ExecutorModule._check_last_step
    pc,               \* position inside execute
    steps,            \* ReactAgent.steps, the ledger
    suggestion,       \* local variable suggestion
    calls,            \* tool calls of the current reply not yet dispatched
    with_error,       \* local variable with_error
    raised,           \* exception that left execute, or None
    returned,         \* value returned by execute, or None
    gatewayLog,       \* one entry per self.chat(prompt)
    toolLog,          \* one entry per call.execute()
    reviewLog,        \* one entry per Reviewer operation
    found             \* entries the call found in the ledger on entry; 0 once
                      \* the loop has made its first gateway call

execVars == <<draft, check_last_step, pc, steps, suggestion, calls, with_error,
              raised, returned, gatewayLog, toolLog, reviewLog, found>>

VARIABLES
    tool_agent,       \* AbstractTool._agent of every tool object, or None
    tool_closed,      \* AbstractTool._closed of every tool object
    tool_map,         \* Agent._tool_map of the agent and of its executor
    agent_life,       \* the agent object: absent, constructed, failed, closed
    lifeLog           \* one entry per init, close or invoke of a tool

lifeVars == <<tool_agent, tool_closed, tool_map, agent_life, lifeLog>>

VARIABLES
    outer_pc,         \* position of the outer executor around call.execute()
    outer_steps,      \* the ledger of the outer agent
    invokeLog         \* one entry per invoke of the nested agent

nestVars == <<outer_pc, outer_steps, invokeLog>>

VARIABLES
    critic_pc,        \* position inside CriticModule._review
    history,          \* Agent.history of the Reviewer
    criticLog         \* one entry per Reviewer operation

criticVars == <<critic_pc, history, criticLog>>

VARIABLES
    ser_step,         \* the step that is serialized
    ser_how,          \* the serializer used
    ser_text,         \* the JSON text, or None
    ser_parsed        \* the step parsed back, or NoStep

serVars == <<ser_step, ser_how, ser_text, ser_parsed>>

VARIABLES
    max_history_length,      \* Agent.max_history_length
    max_conversation_steps,  \* Agent.max_conversation_steps
    personality,             \* Agent.personality
    agentLog                 \* one entry per Agent.chat and Agent.complete

agentVars == <<max_history_length, max_conversation_steps, personality, agentLog>>

VARIABLES
    slot_template,    \* the template given to Agent.fill_slots
    slot_map,         \* the slots given to Agent.fill_slots
    slot_result       \* the text Agent.fill_slots returned, or None

slotVars == <<slot_template, slot_map, slot_result>>

VARIABLES
    canned_tasks,     \* the scenario's canned output of getUnassignedTasks
    unassigned_tasks, \* ExecutionContext.unassigned_tasks, or None
    operator_tasks,   \* ExecutionContext.operator_tasks
    peaceLog          \* one entry per call of a PEACE task API

peaceVars == <<canned_tasks, unassigned_tasks, operator_tasks, peaceLog>>

\* the Agent base class, its template helper and the PEACE simulation
moreVars == <<agentVars, slotVars, peaceVars>>

\* the state of the components other than ExecutorModule.execute
otherVars == <<lifeVars, nestVars, criticVars, serVars, moreVars>>

vars == <<execVars, otherVars>>

\* ------------------------------------------------------------------ steps
\* Step.Builder.build: `self._x or self._raise("x")` raises ValueError for a
\* field that is None or the empty string
Step_Builder_build_raises(actor, thought, observation) ==
    actor = "" \/ thought = << >> \/ observation = << >>

\* ToolCallStep.Builder.build, same idiom on action and action_input too
ToolCallStep_Builder_build_raises(actor, thought, observation, action, action_input) ==
    \/ Step_Builder_build_raises(actor, thought, observation)
    \/ action = << >>
    \/ action_input = << >>

\* class Step
Step(status, actor, thought, observation) ==
    [cls |-> "Step", status |-> status, actor |-> actor,
     thought |-> thought, observation |-> observation]

\* class ToolCallStep
ToolCallStep(status, actor, thought, observation, action, action_input, action_steps) ==
    [cls |-> "ToolCallStep", status |-> status, actor |-> actor,
     thought |-> thought, observation |-> observation,
     action |-> action, action_input |-> action_input,
     action_steps |-> action_steps]

\* isinstance(s, ToolCallStep)
IsToolCallStep(s) == s.cls = "ToolCallStep"

\* ReactAgent.add_step
add_step(ledger, s) == Append(ledger, s)

\* ReactAgent.get_last_step
get_last_step(ledger) == IF ledger = << >> THEN NoStep ELSE ledger[Len(ledger)]

\* SetLastStatus that replaces the status of every entry
SetLastStatus_all(ledger, st) ==
    [i \in 1..Len(ledger) |-> [ledger[i] EXCEPT !.status = st]]

\* the ledger with the status of its last entry replaced
SetLastStatus(ledger, st) ==
    [ledger EXCEPT ![Len(ledger)] = [@ EXCEPT !.status = st]]

\* s.model_dump(exclude={"action_steps"}) for a ToolCallStep, s.model_dump()
\* otherwise, then json.dumps of the record
ModelDumpJson(s) ==
    <<"{", "status:", (IF s.status = None THEN "null" ELSE s.status),
      "actor:", s.actor, "thought:">> \o s.thought
      \o <<"observation:">> \o s.observation
      \o (IF IsToolCallStep(s)
          THEN <<"action:">> \o s.action \o <<"action_input:">> \o s.action_input
          ELSE << >>)
      \o <<"}">>

RECURSIVE StepsJsonFrom(_, _)
StepsJsonFrom(ledger, i) ==
    IF i > Len(ledger) THEN << >>
    ELSE ModelDumpJson(ledger[i]) \o StepsJsonFrom(ledger, i + 1)

\* steps_json
StepsJson(ledger) == <<"[">> \o StepsJsonFrom(ledger, 1) \o <<"]">>

\* Agent.fill_slots(instructions_tpl, {"steps": steps_json, "suggestion": suggestion})
Prompt(ledger, sugg) ==
    <<"<steps>">> \o StepsJson(ledger) \o <<"</steps>", "Suggestion: ">> \o sugg

\* ------------------------------------------------------------------ tool calls
\* "thought" in arguments
HasKey(args, k) == \E i \in 1..Len(args) : args[i][1] = k

\* arguments[k]
ValueOf(args, k) == args[CHOOSE i \in 1..Len(args) : args[i][1] = k][2]

\* args_no_thought = dict(call.arguments); args_no_thought.pop("thought", ...)
ArgsNoThought(args) == SelectSeq(args, LAMBDA p : p[1] # "thought")

\* value returned by args_no_thought.pop("thought", default), through str()
ThoughtOf(args, default) ==
    IF HasKey(args, "thought") THEN ValueOf(args, "thought") ELSE default

NO_THOUGHT_PYTHON == <<"No thought passed explicitely.">>

NO_THOUGHT_JAVA == <<"No thought passed explicitly.">>

RECURSIVE JsonPairsFrom(_, _)
JsonPairsFrom(args, i) ==
    IF i > Len(args) THEN << >>
    ELSE <<args[i][1], ":", "\"">> \o args[i][2] \o <<"\"">>
         \o JsonPairsFrom(args, i + 1)

\* json.dumps(args_no_thought, separators=(",", ":"))
JsonDumps(args) == <<"{">> \o JsonPairsFrom(args, 1) \o <<"}">>

\* f'The tool "{call.tool.id}" has been called'
ActionText(toolId) == <<"The tool \"", toolId, "\" has been called">>

\* ToolCallResult.from_exception: f"Error: {exc}", is_error=True
from_exception(excText) ==
    [result |-> <<"E","r","r","o","r",":"," ">> \o excText, is_error |-> TRUE]

\* ToolCallResult.from_call
from_call(text) == [result |-> text, is_error |-> FALSE]

\* isinstance(result.result, str) and "error" in result.result.lower()
ResultMentionsError(result) ==
    /\ result.result # NoneText
    /\ Contains(Lower(result.result), <<"e","r","r","o","r">>)

\* observation of the step recorded for a tool call
\*   python: "" if result.result is None else str(result.result)
\*   java  : str(result.result)
ObservationOf(d, result) ==
    IF result.result = NoneText
    THEN (IF d = "python" THEN << >> ELSE <<"N","o","n","e">>)
    ELSE result.result

\* LacksContinue without the lower(): a case-sensitive test
LacksContinue_caseSensitive(reply) ==
    ~Contains(reply, <<"c","o","n","t","i","n","u","e">>)

\* "continue" not in suggestion.lower()
LacksContinue(reply) ==
    ~Contains(Lower(reply), <<"c","o","n","t","i","n","u","e">>)

\* ------------------------------------------------------------------ loop
\* the while condition without its test for a missing status
LoopGuard_ignoresMissingStatus(ledger) ==
    /\ Len(ledger) < MAX_STEPS
    /\ \/ get_last_step(ledger) = NoStep
       \/ get_last_step(ledger).status = "IN_PROGRESS"

\* the while condition of execute
LoopGuard(ledger) ==
    /\ Len(ledger) < MAX_STEPS
    /\ \/ get_last_step(ledger) = NoStep
       \/ get_last_step(ledger).status = None
       \/ get_last_step(ledger).status = "IN_PROGRESS"

\* BatchBreak without the break: the batch always runs to its end
BatchBreak_never(ledger) == FALSE

\* BatchBreak one entry late
BatchBreak_late(ledger) == Len(ledger) > MAX_STEPS + 1

\* BatchBreak two entries late
BatchBreak_twoLate(ledger) == Len(ledger) > MAX_STEPS + 2

\* `if len(self._agent.steps) > self.MAX_STEPS: break` inside the batch
BatchBreak(ledger) == Len(ledger) > MAX_STEPS

\* whether the suggestion is assigned after the batch
\*   python: `if len(self._agent.steps) <= self.MAX_STEPS:`   java: always
AssignsAfterBatch(d, ledger) ==
    IF d = "python" THEN Len(ledger) <= MAX_STEPS ELSE TRUE

\* Overflowed with > in place of >=
Overflowed_strict(ledger) == Len(ledger) > MAX_STEPS

\* `if len(self._agent.steps) >= self.MAX_STEPS:` after the loop
Overflowed(ledger) == Len(ledger) >= MAX_STEPS

\* whether the code after a non-tool step calls review_conclusions
CallsReviewConclusions(d, cls, ledger) ==
    LET last == get_last_step(ledger) IN
    IF d = "python"
    THEN IF last.status # "IN_PROGRESS"
         THEN /\ Len(ledger) > 1
              /\ ~IsToolCallStep(ledger[Len(ledger) - 1])
              /\ cls
         ELSE cls
    ELSE last.status # "IN_PROGRESS" /\ cls

\* BranchResetsStatus with the reset under the IN_PROGRESS branch in
\* both drafts
BranchResetsStatus_underInProgress(d, ledger) ==
    get_last_step(ledger).status = "IN_PROGRESS"

\* whether the branch that called review_conclusions goes on to
\* `if "continue" not in suggestion.lower(): last.status = IN_PROGRESS`
BranchResetsStatus(d, ledger) ==
    LET last == get_last_step(ledger) IN
    IF d = "python" THEN last.status = "IN_PROGRESS" ELSE TRUE

\* the suggestion after a non-tool step when the Reviewer is not called
SuggestionWithoutReview(d, ledger, old) ==
    LET last == get_last_step(ledger) IN
    IF d = "python"
    THEN IF last.status # "IN_PROGRESS" THEN STRICT_PYTHON ELSE old
    ELSE IF last.status = "IN_PROGRESS" THEN STRICT_JAVA ELSE old

\* ------------------------------------------------------------------ idle components
\* no outer agent is around the agent
NestIdle ==
    /\ outer_pc = "none"
    /\ outer_steps = << >>
    /\ invokeLog = << >>

\* the Reviewer is not looked into
CriticIdle ==
    /\ critic_pc = "idle"
    /\ history = << >>
    /\ criticLog = << >>

\* nothing is serialized
SerIdle ==
    /\ ser_step = NoStep
    /\ ser_how = None
    /\ ser_text = None
    /\ ser_parsed = NoStep

\* the Agent base class is not looked into
AgentIdle ==
    /\ max_history_length = Inf
    /\ max_conversation_steps = Inf
    /\ personality = NoneText
    /\ agentLog = << >>

\* no template is filled
SlotIdle ==
    /\ slot_template = << >>
    /\ slot_map = << >>
    /\ slot_result = NoneText

\* no execution context of the PEACE simulation exists
PeaceIdle ==
    /\ canned_tasks = << >>
    /\ unassigned_tasks = NoTasks
    /\ operator_tasks = << >>
    /\ peaceLog = << >>

MoreIdle == AgentIdle /\ SlotIdle /\ PeaceIdle

\* execute has not been called and is not called
ExecIdle ==
    /\ draft = "python"
    /\ check_last_step = FALSE
    /\ pc = "idle"
    /\ steps = << >>
    /\ suggestion = << >>
    /\ calls = << >>
    /\ with_error = FALSE
    /\ raised = None
    /\ returned = NoStep
    /\ gatewayLog = << >>
    /\ toolLog = << >>
    /\ reviewLog = << >>
    /\ found = 0

\* ------------------------------------------------------------------ tool lifecycle
\* the AbstractTool objects: two plain tools (Api) and the agent itself, a
\* ToolableReactAgent
PlainTools == {"searchFlights", "getWeather"}

ToolObjs == PlainTools \cup {AgentId}

\* the agents a tool is bound to: the executor of the agent, which sits under
\* a LabAgent, and an agent of its own that does not
Owners == {ExecutorId, "other"}

\* the tool lists an agent is constructed with
SuppliedTools ==
    { << >>, <<"searchFlights">>, <<"getWeather">>,
      <<"searchFlights", "getWeather">>, <<"searchFlights", "searchFlights">> }

\* what the tool lifecycle leaves alone
lifeRest == <<execVars, nestVars, criticVars, serVars, moreVars>>

\* AbstractTool.__init__ and the state before any agent is constructed
LifeInit ==
    /\ tool_agent = [t \in ToolObjs |-> None]
    /\ tool_closed = [t \in ToolObjs |-> FALSE]
    /\ tool_map = [a \in {AgentId, ExecutorId} |-> {}]
    /\ agent_life = [state |-> "absent", supplied |-> << >>]
    /\ lifeLog = << >>

\* AbstractTool.is_initialized
is_initialized(owner) == owner # None

\* AbstractTool.is_closed
is_closed(closed) == closed

\* init that does not look at the closed flag
init_raises_ignoringClosed(owner, closed, agent) ==
    IF agent = None THEN "ValueError"
    ELSE IF is_initialized(owner) THEN "RuntimeError"
    ELSE None

\* the exception AbstractTool.init raises, or None
init_raises(owner, closed, agent) ==
    IF agent = None THEN "ValueError"
    ELSE IF is_initialized(owner) THEN "RuntimeError"
    ELSE IF is_closed(closed) THEN "RuntimeError"
    ELSE None

\* one entry of lifeLog: the call, the tool's state when it was made, the
\* exception it raised, whether the capability was executed
LifeEntry(op, t, agent, owner, closed, exc, executed) ==
    [op |-> op, tool |-> t, agent |-> agent, was_initialized |-> is_initialized(owner),
     was_closed |-> closed, raised |-> exc, executed |-> executed]

\* the tool objects that exist: the agent is one once it is constructed
Exists(t) == t \in PlainTools \/ agent_life.state \in {"constructed", "closed"}

\* tool.init(agent), called by a client
AbstractTool_init(t, agent) ==
    /\ Exists(t)
    /\ Len(lifeLog) < MaxOps
    /\ LET exc == init_raises(tool_agent[t], tool_closed[t], agent)
       IN  /\ tool_agent' = IF exc = None THEN [tool_agent EXCEPT ![t] = agent]
                            ELSE tool_agent
           /\ lifeLog' = Append(lifeLog,
                  LifeEntry("init", t, agent, tool_agent[t], tool_closed[t], exc, FALSE))
    /\ UNCHANGED <<tool_closed, tool_map, agent_life>>
    /\ UNCHANGED lifeRest

\* ReactAgent.close, inherited from Agent: closes the tools of the agent's
\* own _tool_map, which ReactAgent.__init__ leaves empty
Agent_close(closed, tools) == [t \in ToolObjs |-> closed[t] \/ t \in tools]

\* tool.close() of a plain tool, called by a client
AbstractTool_close(t) ==
    /\ t \in PlainTools
    /\ Len(lifeLog) < MaxOps
    /\ tool_closed' = [tool_closed EXCEPT ![t] = TRUE]
    /\ lifeLog' = Append(lifeLog,
           LifeEntry("close", t, None, tool_agent[t], tool_closed[t], None, FALSE))
    /\ UNCHANGED <<tool_agent, tool_map, agent_life>>
    /\ UNCHANGED lifeRest

\* ToolableReactAgent.close: AbstractTool.close(self), then ReactAgent.close(self)
ToolableReactAgent_close ==
    /\ agent_life.state \in {"constructed", "closed"}
    /\ Len(lifeLog) < MaxOps
    /\ tool_closed' = Agent_close([tool_closed EXCEPT ![AgentId] = TRUE], tool_map[AgentId])
    /\ agent_life' = [agent_life EXCEPT !.state = "closed"]
    /\ lifeLog' = Append(lifeLog,
           LifeEntry("close", AgentId, None, tool_agent[AgentId], tool_closed[AgentId],
                     None, FALSE))
    /\ UNCHANGED <<tool_agent, tool_map>>
    /\ UNCHANGED lifeRest

\* invoke that refuses a closed tool
invoke_raises_checkingClosed(t, owner, closed) ==
    IF ~is_initialized(owner) \/ is_closed(closed) THEN "RuntimeError"
    ELSE IF t \in PlainTools /\ owner # ExecutorId THEN "RuntimeError"
    ELSE None

\* the exception invoke raises before it executes the capability, or None:
\* ToolableReactAgent.invoke and Api.invoke test is_initialized only; Api.invoke
\* also needs a LabAgent above the owner
invoke_raises(t, owner, closed) ==
    IF ~is_initialized(owner) THEN "RuntimeError"
    ELSE IF t \in PlainTools /\ owner # ExecutorId THEN "RuntimeError"
    ELSE None

\* tool.invoke(call), called by a client or by the executor
Tool_invoke(t) ==
    /\ Exists(t)
    /\ Len(lifeLog) < MaxOps
    /\ LET exc == invoke_raises(t, tool_agent[t], tool_closed[t])
       IN  lifeLog' = Append(lifeLog,
               LifeEntry("invoke", t, None, tool_agent[t], tool_closed[t], exc, exc = None))
    /\ UNCHANGED <<tool_agent, tool_closed, tool_map, agent_life>>
    /\ UNCHANGED lifeRest

\* the loop `for tool in tools: tool.init(self); self._tool_map[tool.id] = tool`
\* of Agent.__init__, from the i-th tool on; the first init that raises ends it
RECURSIVE InitTools(_, _, _)
InitTools(tools, i, st) ==
    IF i > Len(tools) \/ st.exc # None THEN st
    ELSE LET t == tools[i]
             exc == init_raises(st.owner[t], tool_closed[t], ExecutorId)
             entry == LifeEntry("init", t, ExecutorId, st.owner[t], tool_closed[t], exc, FALSE)
         IN  InitTools(tools, i + 1,
                 [owner |-> IF exc = None THEN [st.owner EXCEPT ![t] = ExecutorId]
                            ELSE st.owner,
                  map |-> IF exc = None THEN st.map \cup {t} ELSE st.map,
                  log |-> Append(st.log, entry),
                  exc |-> exc])

\* ToolableReactAgent(id, description, tools): ReactAgent.__init__ builds the
\* outer Agent with tools=[], the ExecutorModule with the tools (Agent.__init__
\* initialises them) and the CriticModule with tools=[]; AbstractTool.__init__
\* then resets the agent's own _agent and _closed
ToolableReactAgent_init(tools) ==
    /\ agent_life.state = "absent"
    /\ Len(lifeLog) + Len(tools) <= MaxOps
    /\ LET st == InitTools(tools, 1,
                     [owner |-> tool_agent, map |-> {}, log |-> lifeLog, exc |-> None])
       IN  /\ tool_agent' = [st.owner EXCEPT ![AgentId] = None]
           /\ tool_map' = [tool_map EXCEPT ![AgentId] = {}, ![ExecutorId] = st.map]
           /\ lifeLog' = st.log
           /\ agent_life' = [state |-> IF st.exc = None THEN "constructed" ELSE "failed",
                             supplied |-> tools]
    /\ tool_closed' = [tool_closed EXCEPT ![AgentId] = FALSE]
    /\ UNCHANGED lifeRest

\* tools and an agent in the hands of a client that constructs, binds,
\* invokes and closes them in any order
LifeStart == ExecIdle /\ LifeInit /\ NestIdle /\ CriticIdle /\ SerIdle /\ MoreIdle

LifeNext ==
    \/ \E t \in ToolObjs, agent \in Owners \cup {None} : AbstractTool_init(t, agent)
    \/ \E t \in ToolObjs : AbstractTool_close(t)
    \/ ToolableReactAgent_close
    \/ \E t \in ToolObjs : Tool_invoke(t)
    \/ \E tools \in SuppliedTools : ToolableReactAgent_init(tools)

LifeSpec == LifeStart /\ [][LifeNext]_vars

\* ------------------------------------------------------------------ state machine
Init ==
    /\ draft \in Drafts
    /\ check_last_step \in BOOLEAN
    /\ pc = "idle"
    /\ steps = << >>
    /\ suggestion = << >>
    /\ calls = << >>
    /\ with_error = FALSE
    /\ raised = None
    /\ returned = NoStep
    /\ gatewayLog = << >>
    /\ toolLog = << >>
    /\ reviewLog = << >>
    /\ found = 0
    /\ LifeInit
    /\ NestIdle
    /\ CriticIdle
    /\ SerIdle
    /\ MoreIdle

\* the first bookkeeping step; the two drafts word its thought differently
FirstStep(d) ==
    Step("IN_PROGRESS", ExecutorId,
         (IF d = "python"
          THEN <<"I am starting execution of the below user's command in the <user_command> tag.">>
          ELSE <<"I am starting execution of the below user's command in <user_command>">>)
             \o Command,
         <<"Execution just started.">>)

\* steps.clear() without the clear: the ledger is kept
steps_clear_absent(ledger) == ledger

\* self._agent.steps.clear()
steps_clear(ledger) == << >>

\* execute(command), up to the loop: clear the ledger, add the first step,
\* set the initial suggestion.  execute can be called again on the same agent
\* once an earlier call has returned or raised; the locals and the logs start
\* afresh with every call.
execute_entry ==
    /\ pc \in {"idle", "done", "raised"}
    /\ found' = Len(steps)
    /\ steps' = add_step(steps_clear(steps), FirstStep(draft))
    /\ suggestion' = IF draft = "python" THEN CONTINUE ELSE NO_SUGGESTIONS
    /\ pc' = "loop"
    /\ calls' = << >>
    /\ with_error' = FALSE
    /\ raised' = None
    /\ returned' = NoStep
    /\ gatewayLog' = << >>
    /\ toolLog' = << >>
    /\ reviewLog' = << >>
    /\ UNCHANGED <<draft, check_last_step>>

\* execute(command) called by a client of the agent
Execute ==
    /\ execute_entry
    /\ UNCHANGED otherVars

\* one entry of gatewayLog: the suggestion the prompt carried, the ledger
\* length when it was rendered, and what the gateway answered
GatewayEntry(outcome, status, ncalls) ==
    [suggestion |-> suggestion, nsteps |-> Len(steps),
     outcome |-> outcome, status |-> status, ncalls |-> ncalls]

\* self.chat(prompt) raises: `except Exception as exc` adds an ERROR
\* ToolCallStep and breaks
ChatRaises ==
    /\ pc = "loop"
    /\ LoopGuard(steps)
    /\ found' = 0
    /\ \E excText \in ExcTexts :
         LET prompt == Prompt(steps, suggestion)
             thought == <<"I had something in mind...">>
             action == <<"LLM was called but this resulted in an error.">>
         IN  IF ToolCallStep_Builder_build_raises(ExecutorId, thought, excText, action, prompt)
             THEN /\ raised' = "ValueError"
                  /\ pc' = "raised"
                  /\ steps' = steps
             ELSE /\ steps' = add_step(steps,
                         ToolCallStep("ERROR", ExecutorId, thought, excText,
                                      action, prompt, << >>))
                  /\ pc' = "exit"
                  /\ raised' = raised
    /\ gatewayLog' = Append(gatewayLog, GatewayEntry("raise", None, 0))
    /\ UNCHANGED <<draft, check_last_step, suggestion, calls, with_error,
                   returned, toolLog, reviewLog>>
    /\ UNCHANGED otherVars

\* reply.finish_reason != COMPLETED: an ERROR ToolCallStep and break
ChatTruncated ==
    /\ pc = "loop"
    /\ LoopGuard(steps)
    /\ found' = 0
    /\ \E reason \in FailedFinishReasons :
         steps' = add_step(steps,
             ToolCallStep("ERROR", ExecutorId, <<"I had something in mind...">>,
                          <<"Response finish reason: ", reason>>,
                          <<"LLM was called but this resulted in a truncated message.">>,
                          Prompt(steps, suggestion), << >>))
    /\ pc' = "exit"
    /\ gatewayLog' = Append(gatewayLog, GatewayEntry("truncated", None, 0))
    /\ UNCHANGED <<draft, check_last_step, suggestion, calls, with_error,
                   raised, returned, toolLog, reviewLog>>
    /\ UNCHANGED otherVars

\* the call that a model repeats within one reply
RepeatedCall ==
    [tool |-> "searchFlights",
     arguments |-> << <<"thought", <<"look up">> >>, <<"city", <<"Rome">> >> >>]

\* the batches of tool calls a reply can carry: any single call, or up to
\* MaxBatch requests of RepeatedCall (the outcomes of the calls of a batch
\* vary independently)
Batches ==
    { <<c>> : c \in [tool : ToolIds, arguments : ArgumentMaps] }
    \cup { [i \in 1..n |-> RepeatedCall] : n \in 2..MaxBatch }

\* reply.message.has_tool_calls(): with_error = False, then the for loop
ChatToolCalls ==
    /\ pc = "loop"
    /\ LoopGuard(steps)
    /\ found' = 0
    /\ \E batch \in Batches :
         /\ calls' = batch
         /\ gatewayLog' = Append(gatewayLog, GatewayEntry("tool_calls", None, Len(batch)))
    /\ with_error' = FALSE
    /\ pc' = "tools"
    /\ UNCHANGED <<draft, check_last_step, steps, suggestion, raised, returned,
                   toolLog, reviewLog>>
    /\ UNCHANGED otherVars

\* ForceActor that trusts the actor the model wrote
ForceActor_trusting(step_obj) == step_obj

\* step_obj.actor = self.id
ForceActor(step_obj) == [step_obj EXCEPT !.actor = ExecutorId]

\* a reply without tool calls that parses as a Step: the actor is forced to
\* self.id and the step is added
ChatStep ==
    /\ pc = "loop"
    /\ LoopGuard(steps)
    /\ found' = 0
    /\ \E status \in ModelStatuses, actor \in ModelActors :
         LET step_obj == Step(status, actor, <<"model thought">>, <<"model observation">>)
         IN  /\ steps' = add_step(steps, ForceActor(step_obj))
             /\ gatewayLog' = Append(gatewayLog, GatewayEntry("step", status, 0))
    /\ pc' = "check"
    /\ UNCHANGED <<draft, check_last_step, suggestion, calls, with_error,
                   raised, returned, toolLog, reviewLog>>
    /\ UNCHANGED otherVars

\* a reply without tool calls that does not parse: the fallback ERROR step
\* with the raw text as observation
ChatUnparsable ==
    /\ pc = "loop"
    /\ LoopGuard(steps)
    /\ found' = 0
    /\ \E text \in RawTexts :
         LET thought == <<"I stopped because I encountered this error: ", "ValidationError">>
         IN  IF Step_Builder_build_raises(ExecutorId, thought, text)
             THEN /\ raised' = "ValueError"
                  /\ pc' = "raised"
                  /\ steps' = steps
             ELSE /\ steps' = add_step(steps, Step("ERROR", ExecutorId, thought, text))
                  /\ pc' = "check"
                  /\ raised' = raised
    /\ gatewayLog' = Append(gatewayLog, GatewayEntry("unparsable", None, 0))
    /\ UNCHANGED <<draft, check_last_step, suggestion, calls, with_error,
                   returned, toolLog, reviewLog>>
    /\ UNCHANGED otherVars

\* what call.execute() can do: raise, or return a result
ToolOutcomes(tool) ==
    [raises : {TRUE}, text : ToolExcTexts(tool)]
    \cup [raises : {FALSE}, text : ToolResults(tool)]

\* `result = call.execute()` and its except clause
ResultOf(outcome) ==
    IF outcome.raises THEN from_exception(outcome.text) ELSE from_call(outcome.text)

\* WithErrorAfter that forgets the earlier calls of the batch
WithErrorAfter_lastOnly(old, outcome) ==
    outcome.raises \/ ResultMentionsError(ResultOf(outcome))

\* with_error after one call
WithErrorAfter(old, outcome) ==
    old \/ outcome.raises \/ ResultMentionsError(ResultOf(outcome))

\* one entry of toolLog
ToolEntry(call, outcome) ==
    [chat |-> Len(gatewayLog), nsteps |-> Len(steps), tool |-> call.tool,
     arguments |-> call.arguments, raises |-> outcome.raises, text |-> outcome.text]

\* one pass of `for call in reply.message.get_tool_calls()`: execute the call,
\* record a ToolCallStep, break when the ledger exceeds MAX_STEPS
ToolCallExecute ==
    /\ pc = "tools"
    /\ calls # << >>
    /\ \E outcome \in ToolOutcomes(Head(calls).tool) :
         LET call == Head(calls)
             result == ResultOf(outcome)
             thought == ThoughtOf(call.arguments,
                            IF draft = "python" THEN NO_THOUGHT_PYTHON ELSE NO_THOUGHT_JAVA)
             action == ActionText(call.tool)
             action_input == JsonDumps(ArgsNoThought(call.arguments))
             observation == ObservationOf(draft, result)
         IN  /\ toolLog' = Append(toolLog, ToolEntry(call, outcome))
             /\ with_error' = WithErrorAfter(with_error, outcome)
             /\ IF ToolCallStep_Builder_build_raises(ExecutorId, thought, observation,
                                                     action, action_input)
                THEN /\ raised' = "ValueError"
                     /\ pc' = "raised"
                     /\ steps' = steps
                ELSE /\ steps' = add_step(steps,
                            ToolCallStep("IN_PROGRESS", ExecutorId, thought, observation,
                                         action, action_input, << >>))
                     /\ pc' = IF BatchBreak(steps') \/ Tail(calls) = << >>
                              THEN "batch_end" ELSE "tools"
                     /\ raised' = raised
    /\ calls' = Tail(calls)
    /\ UNCHANGED <<found, draft, check_last_step, suggestion, returned, gatewayLog, reviewLog>>
    /\ UNCHANGED otherVars

\* one entry of reviewLog
ReviewEntry(op, reply) ==
    [op |-> op, reply |-> reply, chat |-> Len(gatewayLog), nsteps |-> Len(steps)]

\* after the batch, no Reviewer call: suggestion = "CONTINUE", or no
\* assignment at all when the python draft finds the ledger over MAX_STEPS
BatchEnd ==
    /\ pc = "batch_end"
    /\ ~(AssignsAfterBatch(draft, steps) /\ with_error)
    /\ suggestion' = IF AssignsAfterBatch(draft, steps) THEN CONTINUE ELSE suggestion
    /\ calls' = << >>
    /\ pc' = "loop"
    /\ UNCHANGED <<found, draft, check_last_step, steps, with_error, raised, returned,
                   gatewayLog, toolLog, reviewLog>>
    /\ UNCHANGED otherVars

\* after the batch: suggestion = self._agent.reviewer.review_tool_call(steps)
ReviewToolCall ==
    /\ pc = "batch_end"
    /\ AssignsAfterBatch(draft, steps) /\ with_error
    /\ \E reply \in ReviewerReplies :
         /\ suggestion' = reply
         /\ reviewLog' = Append(reviewLog, ReviewEntry("review_tool_call", reply))
    /\ calls' = << >>
    /\ pc' = "loop"
    /\ UNCHANGED <<found, draft, check_last_step, steps, with_error, raised, returned,
                   gatewayLog, toolLog>>
    /\ UNCHANGED otherVars

\* review_tool_call raises (its own model call failed); execute has no
\* handler around it
ReviewToolCallRaises ==
    /\ pc = "batch_end"
    /\ AssignsAfterBatch(draft, steps) /\ with_error
    /\ reviewLog' = Append(reviewLog, ReviewEntry("review_tool_call", NoneText))
    /\ raised' = "ReviewerError"
    /\ pc' = "raised"
    /\ UNCHANGED <<found, draft, check_last_step, steps, suggestion, calls, with_error,
                   returned, gatewayLog, toolLog>>
    /\ UNCHANGED otherVars

\* after a non-tool step, the paths that do not call the Reviewer
CheckResult ==
    /\ pc = "check"
    /\ ~CallsReviewConclusions(draft, check_last_step, steps)
    /\ suggestion' = SuggestionWithoutReview(draft, steps, suggestion)
    /\ pc' = "loop"
    /\ UNCHANGED <<found, draft, check_last_step, steps, calls, with_error, raised,
                   returned, gatewayLog, toolLog, reviewLog>>
    /\ UNCHANGED otherVars

\* after a non-tool step: suggestion = review_conclusions(steps), and the
\* status reset where the branch has it
ReviewConclusions ==
    /\ pc = "check"
    /\ CallsReviewConclusions(draft, check_last_step, steps)
    /\ \E reply \in ReviewerReplies :
         /\ suggestion' = reply
         /\ reviewLog' = Append(reviewLog, ReviewEntry("review_conclusions", reply))
         /\ steps' = IF BranchResetsStatus(draft, steps) /\ LacksContinue(reply)
                     THEN SetLastStatus(steps, "IN_PROGRESS")
                     ELSE steps
    /\ pc' = "loop"
    /\ UNCHANGED <<found, draft, check_last_step, calls, with_error, raised, returned,
                   gatewayLog, toolLog>>
    /\ UNCHANGED otherVars

\* review_conclusions raises; execute has no handler around it
ReviewConclusionsRaises ==
    /\ pc = "check"
    /\ CallsReviewConclusions(draft, check_last_step, steps)
    /\ reviewLog' = Append(reviewLog, ReviewEntry("review_conclusions", NoneText))
    /\ raised' = "ReviewerError"
    /\ pc' = "raised"
    /\ UNCHANGED <<found, draft, check_last_step, steps, suggestion, calls, with_error,
                   returned, gatewayLog, toolLog>>
    /\ UNCHANGED otherVars

\* the step added when the budget is exhausted
OverflowStep ==
    Step("ERROR", ExecutorId,
         <<"Execution was stopped because it exceeded maximum number of steps (",
           "MAX_STEPS", ").">>,
         <<"I probably entered some kind of loop.">>)

\* ReturnValue that hands back the step the loop ended on, not the overflow
\* step added after it
ReturnValue_beforeOverflow(ledger) ==
    IF Len(ledger) > 1 /\ ledger[Len(ledger)] = OverflowStep
    THEN ledger[Len(ledger) - 1]
    ELSE get_last_step(ledger)

\* return self._agent.get_last_step()
ReturnValue(ledger) == get_last_step(ledger)

\* the code after the loop, reached by a break or by the while condition
\* turning false: the overflow step if the ledger is full, then return
Exit ==
    /\ pc = "exit" \/ (pc = "loop" /\ ~LoopGuard(steps))
    /\ steps' = IF Overflowed(steps) THEN add_step(steps, OverflowStep) ELSE steps
    /\ returned' = ReturnValue(steps')
    /\ pc' = "done"
    /\ UNCHANGED <<found, draft, check_last_step, suggestion, calls, with_error, raised,
                   gatewayLog, toolLog, reviewLog>>
    /\ UNCHANGED otherVars

Next ==
    \/ Execute
    \/ ChatRaises
    \/ ChatTruncated
    \/ ChatToolCalls
    \/ ChatStep
    \/ ChatUnparsable
    \/ ToolCallExecute
    \/ BatchEnd
    \/ ReviewToolCall
    \/ ReviewToolCallRaises
    \/ CheckResult
    \/ ReviewConclusions
    \/ ReviewConclusionsRaises
    \/ Exit

Spec == Init /\ [][Next]_vars

\* execute runs on the calling thread to its end: every step that can be
\* taken is taken
FairSpec == Spec /\ WF_vars(Next)

\* ------------------------------------------------------------------ the agent as a tool
\* the invocations of the nested agent that are followed
MaxInvokes == 2

\* the gateway calls of the nested agent that are followed, over all its
\* invocations
MaxChats == 3

\* the executor of the outer agent, which owns the nested agent as a tool
OuterExecutorId == "outer-executor"

\* the argument maps of a call to the nested agent: with a question, without
\* one, and with a null question
NestedArgumentMaps ==
    { << <<"thought", <<"ask the agent">> >>, <<"question", Command>> >>,
      << <<"thought", << >> >>, <<"question", Command>> >>,
      << <<"thought", <<"ask the agent">> >> >>,
      << <<"thought", <<"ask the agent">> >>, <<"question", NoneText>> >> }

\* AbstractTool.get_string(name, args): None if the key is missing or null
get_string(name, args) ==
    IF ~HasKey(args, name) THEN NoneText
    ELSE IF ValueOf(args, name) = NoneText THEN NoneText
    ELSE ValueOf(args, name)

NO_QUESTION ==
    <<"E","R","R","O","R",":"," ",
      "You must provide a command to execute as \"question\" parameter.">>

\* the result text that ignores the final status
ResultText_verbatim(result_step) == result_step.observation

\* the text of the result ToolableReactAgent.invoke builds from the final step
ResultText(result_step) ==
    IF result_step.status = "ERROR"
    THEN <<"E","R","R","O","R",":"," ">> \o result_step.observation
    ELSE result_step.observation

\* str(exc) of the ValueError that Builder._raise raises
BuilderErrorText == <<"field must not be None">>

\* the outer agent's ledger when it dispatches its first call
OuterSeed ==
    << [FirstStep(draft) EXCEPT !.actor = OuterExecutorId] >>

\* the outer executor is about to dispatch a call to the nested agent, which
\* its constructor has initialised; the nested agent has no tools of its own,
\* so its gateway never asks for a tool call
NestStart ==
    /\ draft \in Drafts
    /\ check_last_step \in BOOLEAN
    /\ pc = "idle"
    /\ steps = << >>
    /\ suggestion = << >>
    /\ calls = << >>
    /\ with_error = FALSE
    /\ raised = None
    /\ returned = NoStep
    /\ gatewayLog = << >>
    /\ toolLog = << >>
    /\ reviewLog = << >>
    /\ found = 0
    /\ tool_agent = [t \in ToolObjs |-> IF t = AgentId THEN OuterExecutorId ELSE None]
    /\ tool_closed = [t \in ToolObjs |-> FALSE]
    /\ tool_map = [a \in {AgentId, ExecutorId} |-> {}]
    /\ agent_life = [state |-> "constructed", supplied |-> << >>]
    /\ lifeLog = << >>
    /\ outer_pc = "ready"
    /\ outer_steps = OuterSeed
    /\ invokeLog = << >>
    /\ CriticIdle
    /\ SerIdle
    /\ MoreIdle

\* the test that lets every call through to execute
question_is_None_never(args) == FALSE

\* question = self.get_string("question", call.arguments); question is None
question_is_None(args) == get_string("question", args) = NoneText

\* one entry of invokeLog: the call, the two ledgers when it was made, and
\* what came back (result is None while the nested agent runs)
InvokeEntry(args, entered, result, exc) ==
    [arguments |-> args, outer_before |-> outer_steps, nested_before |-> steps,
     entered |-> entered, result |-> result, raised |-> exc, final |-> NoStep,
     chats |-> 0, recorded |-> FALSE, snapshot |-> << >>,
     with_error |-> FALSE, reviewed |-> FALSE, suggestion |-> NoneText]

\* result = call.execute() of the outer executor, up to the nested execute:
\* ToolableReactAgent.invoke tests is_initialized, reads the question, returns
\* the error result if there is none and calls self.execute(question) otherwise
Invoke ==
    /\ outer_pc = "ready"
    /\ Len(invokeLog) < MaxInvokes
    /\ \E args \in NestedArgumentMaps :
         IF invoke_raises(AgentId, tool_agent[AgentId], tool_closed[AgentId]) # None
         THEN /\ invokeLog' = Append(invokeLog,
                     InvokeEntry(args, FALSE, NoneText, "RuntimeError"))
              /\ outer_pc' = "returned"
              /\ UNCHANGED execVars
         ELSE IF question_is_None(args)
         THEN /\ invokeLog' = Append(invokeLog, InvokeEntry(args, FALSE, NO_QUESTION, None))
              /\ outer_pc' = "returned"
              /\ UNCHANGED execVars
         ELSE /\ invokeLog' = Append(invokeLog, InvokeEntry(args, TRUE, NoneText, None))
              /\ outer_pc' = "invoking"
              /\ execute_entry
    /\ UNCHANGED <<outer_steps, lifeVars, criticVars, serVars, moreVars>>

\* a return that does not wait for the nested execute
NestedHalted_fireAndForget == TRUE

\* self.execute(question) has returned or raised
NestedHalted == pc \in {"done", "raised"}

\* the rest of ToolableReactAgent.invoke: the result built from the final
\* step, or the exception of the nested execute passed on
InvokeReturn ==
    /\ outer_pc = "invoking"
    /\ NestedHalted
    /\ invokeLog' = [invokeLog EXCEPT ![Len(invokeLog)] =
           IF pc = "raised"
           THEN [@ EXCEPT !.raised = raised, !.chats = Len(gatewayLog)]
           ELSE [@ EXCEPT !.result = ResultText(get_last_step(steps)),
                          !.final = get_last_step(steps), !.chats = Len(gatewayLog)]]
    /\ outer_pc' = "returned"
    /\ UNCHANGED <<execVars, outer_steps, lifeVars, criticVars, serVars, moreVars>>

\* the steps the outer executor stores with the call: call.tool.steps in the
\* python draft; call.tool.agent.steps in the java draft, where the nested
\* agent has no attribute agent and the list is empty
ActionSteps(d, nested) == IF d = "python" THEN nested ELSE << >>

\* what call.execute() of the outer executor did: raise, or return a result
OuterOutcome(e) ==
    IF e.raised # None
    THEN [raises |-> TRUE,
          text |-> IF e.raised = "ValueError" THEN BuilderErrorText
                   ELSE <<"Tool must be initialized before invocation.">>]
    ELSE [raises |-> FALSE, text |-> e.result]

\* the rest of the outer executor's pass: the exception handler, with_error,
\* the ToolCallStep built from the result, add_step
OuterToolCallStep ==
    /\ outer_pc = "returned"
    /\ LET e == invokeLog[Len(invokeLog)]
           result == ResultOf(OuterOutcome(e))
           thought == ThoughtOf(e.arguments,
                          IF draft = "python" THEN NO_THOUGHT_PYTHON ELSE NO_THOUGHT_JAVA)
           action == ActionText(AgentId)
           action_input == JsonDumps(ArgsNoThought(e.arguments))
           observation == ObservationOf(draft, result)
           action_steps == ActionSteps(draft, steps)
       IN  IF ToolCallStep_Builder_build_raises(OuterExecutorId, thought, observation,
                                                action, action_input)
           THEN /\ outer_pc' = "raised"
                /\ UNCHANGED <<outer_steps, invokeLog>>
           ELSE /\ outer_steps' = add_step(outer_steps,
                       ToolCallStep("IN_PROGRESS", OuterExecutorId, thought, observation,
                                    action, action_input, action_steps))
                /\ invokeLog' = [invokeLog EXCEPT ![Len(invokeLog)] =
                       [@ EXCEPT !.recorded = TRUE, !.snapshot = steps,
                                 !.with_error = WithErrorAfter(FALSE, OuterOutcome(e))]]
                /\ outer_pc' = "batch_end"
    /\ UNCHANGED <<execVars, lifeVars, criticVars, serVars, moreVars>>

\* after the outer executor's batch, which holds the one call: no Reviewer
\* call, the suggestion is the literal CONTINUE where it is assigned
OuterBatchEnd ==
    /\ outer_pc = "batch_end"
    /\ ~(AssignsAfterBatch(draft, outer_steps) /\ invokeLog[Len(invokeLog)].with_error)
    /\ invokeLog' = [invokeLog EXCEPT ![Len(invokeLog)].suggestion =
           IF AssignsAfterBatch(draft, outer_steps) THEN CONTINUE ELSE @]
    /\ outer_pc' = "ready"
    /\ UNCHANGED <<execVars, outer_steps, lifeVars, criticVars, serVars, moreVars>>

\* what the outer agent's Reviewer answers about a call of the nested agent
OuterReviewerReplies == { <<"R","e","t","r","y">> }

\* after the outer executor's batch: suggestion = review_tool_call(steps)
OuterReviewToolCall ==
    /\ outer_pc = "batch_end"
    /\ AssignsAfterBatch(draft, outer_steps) /\ invokeLog[Len(invokeLog)].with_error
    /\ \E reply \in OuterReviewerReplies :
         invokeLog' = [invokeLog EXCEPT ![Len(invokeLog)] =
             [@ EXCEPT !.reviewed = TRUE, !.suggestion = reply]]
    /\ outer_pc' = "ready"
    /\ UNCHANGED <<execVars, outer_steps, lifeVars, criticVars, serVars, moreVars>>

\* review_tool_call raises and the exception leaves the outer execute
OuterReviewToolCallRaises ==
    /\ outer_pc = "batch_end"
    /\ AssignsAfterBatch(draft, outer_steps) /\ invokeLog[Len(invokeLog)].with_error
    /\ invokeLog' = [invokeLog EXCEPT ![Len(invokeLog)].reviewed = TRUE]
    /\ outer_pc' = "raised"
    /\ UNCHANGED <<execVars, outer_steps, lifeVars, criticVars, serVars, moreVars>>

\* the gateway calls the nested agent has made, over all its invocations
RECURSIVE ChatsBefore(_)
ChatsBefore(n) == IF n = 0 THEN 0 ELSE invokeLog[n].chats + ChatsBefore(n - 1)

TotalChats == ChatsBefore(Len(invokeLog)) + Len(gatewayLog)

\* the nested agent's gateway calls are followed up to MaxChats
ChatsLeft == TotalChats < MaxChats

NestedChatRaises == ChatsLeft /\ ChatRaises

NestedChatTruncated == ChatsLeft /\ ChatTruncated

NestedChatStep == ChatsLeft /\ ChatStep

NestedChatUnparsable == ChatsLeft /\ ChatUnparsable

NestNext ==
    \/ Invoke
    \/ InvokeReturn
    \/ OuterToolCallStep
    \/ OuterBatchEnd
    \/ OuterReviewToolCall
    \/ OuterReviewToolCallRaises
    \/ NestedChatRaises
    \/ NestedChatTruncated
    \/ NestedChatStep
    \/ NestedChatUnparsable
    \/ CheckResult
    \/ ReviewConclusions
    \/ ReviewConclusionsRaises
    \/ Exit

NestSpec == NestStart /\ [][NestNext]_vars

\* ------------------------------------------------------------------ serialization
\* JSON texts are sequences of tokens: the structural tokens { } [ ] : , the
\* literal null, and strings written as a quote, the escaped characters and a
\* quote
QUOTE == "\""

BSLASH == "\\"

NEWLINE == "\n"

\* the two serializers: json.dumps(s.model_dump(exclude={"action_steps"})) of
\* the executor's prompt, and JsonSchema.serialize
Serializers == {"json.dumps", "JsonSchema.serialize"}

\* escaping that copies every character as it is
JsonEscapeChar_raw(c, how) == <<c>>

\* one character inside a JSON string: quote, backslash and newline are
\* escaped by both; json.dumps (ensure_ascii) escapes non-ASCII characters
JsonEscapeChar(c, how) ==
    IF c = QUOTE THEN <<BSLASH, QUOTE>>
    ELSE IF c = BSLASH THEN <<BSLASH, BSLASH>>
    ELSE IF c = NEWLINE THEN <<BSLASH, "n">>
    ELSE IF c = "é" /\ how = "json.dumps" THEN <<BSLASH, "u", "0", "0", "e", "9">>
    ELSE <<c>>

RECURSIVE JsonEscape(_, _, _)
JsonEscape(text, i, how) ==
    IF i > Len(text) THEN << >>
    ELSE JsonEscapeChar(text[i], how) \o JsonEscape(text, i + 1, how)

\* a text as a JSON string
JsonString(text, how) == <<QUOTE>> \o JsonEscape(text, 1, how) \o <<QUOTE>>

\* "key":
JsonKey(k) == <<QUOTE, k, QUOTE, ":">>

\* the status member: json.dumps writes null for None, JsonSchema.serialize
\* leaves the member out (exclude_none=True)
JsonStatus(s, how) ==
    IF s.status = None
    THEN (IF how = "json.dumps" THEN JsonKey("status") \o <<"null", ",">> ELSE << >>)
    ELSE JsonKey("status") \o JsonString(<<s.status>>, how) \o <<",">>

\* the members every Step has
JsonStepMembers(s, how) ==
    JsonStatus(s, how)
    \o JsonKey("actor") \o JsonString(<<s.actor>>, how) \o <<",">>
    \o JsonKey("thought") \o JsonString(s.thought, how) \o <<",">>
    \o JsonKey("observation") \o JsonString(s.observation, how)

RECURSIVE JsonPlainSteps(_, _, _)
JsonPlainSteps(list, i, how) ==
    IF i > Len(list) THEN << >>
    ELSE (IF i > 1 THEN <<",">> ELSE << >>)
         \o <<"{">> \o JsonStepMembers(list[i], how) \o <<"}">>
         \o JsonPlainSteps(list, i + 1, how)

\* one step as JSON text: json.dumps of the dump without action_steps, or
\* model_dump_json(exclude_none=True), which keeps action_steps
SerializeStep(s, how) ==
    <<"{">> \o JsonStepMembers(s, how)
    \o (IF IsToolCallStep(s)
        THEN <<",">> \o JsonKey("action") \o JsonString(s.action, how)
             \o <<",">> \o JsonKey("action_input") \o JsonString(s.action_input, how)
             \o (IF how = "json.dumps" THEN << >>
                 ELSE <<",">> \o JsonKey("action_steps")
                      \o <<"[">> \o JsonPlainSteps(s.action_steps, 1, how) \o <<"]">>)
        ELSE << >>)
    \o <<"}">>

\* a parse that failed
Malformed == [kind |-> "malformed", val |-> << >>, next |-> 0]

\* the characters of a JSON string from position i, after the opening quote
RECURSIVE ParseString(_, _, _)
ParseString(t, i, acc) ==
    IF i > Len(t) THEN Malformed
    ELSE IF t[i] = QUOTE THEN [kind |-> "str", val |-> acc, next |-> i + 1]
    ELSE IF t[i] = BSLASH
    THEN IF i + 1 > Len(t) THEN Malformed
         ELSE IF t[i + 1] = "u"
         THEN IF i + 5 <= Len(t) /\ SubSeq(t, i + 2, i + 5) = <<"0", "0", "e", "9">>
              THEN ParseString(t, i + 6, Append(acc, "é"))
              ELSE Malformed
         ELSE IF t[i + 1] = "n" THEN ParseString(t, i + 2, Append(acc, NEWLINE))
         ELSE IF t[i + 1] \in {QUOTE, BSLASH} THEN ParseString(t, i + 2, Append(acc, t[i + 1]))
         ELSE Malformed
    ELSE IF t[i] = NEWLINE THEN Malformed
    ELSE ParseString(t, i + 1, Append(acc, t[i]))

RECURSIVE ParseValue(_, _)
RECURSIVE ParseMembers(_, _, _)
RECURSIVE ParseElements(_, _, _)
\* the JSON value that starts at position i
ParseValue(t, i) ==
    IF i > Len(t) THEN Malformed
    ELSE IF t[i] = QUOTE THEN ParseString(t, i + 1, << >>)
    ELSE IF t[i] = "null" THEN [kind |-> "null", val |-> << >>, next |-> i + 1]
    ELSE IF t[i] = "{" THEN ParseMembers(t, i + 1, << >>)
    ELSE IF t[i] = "[" THEN ParseElements(t, i + 1, << >>)
    ELSE Malformed

\* the members of an object, up to its closing brace
ParseMembers(t, i, acc) ==
    IF i > Len(t) THEN Malformed
    ELSE IF t[i] = "}" THEN [kind |-> "obj", val |-> acc, next |-> i + 1]
    ELSE IF t[i] = "," /\ acc # << >> THEN ParseMembers(t, i + 1, acc)
    ELSE IF t[i] # QUOTE THEN Malformed
    ELSE LET key == ParseString(t, i + 1, << >>) IN
         IF key.kind = "malformed" \/ key.next > Len(t) THEN Malformed
         ELSE IF t[key.next] # ":" THEN Malformed
         ELSE LET v == ParseValue(t, key.next + 1) IN
              IF v.kind = "malformed" THEN Malformed
              ELSE ParseMembers(t, v.next, Append(acc, <<key.val, v>>))

\* the elements of an array, up to its closing bracket
ParseElements(t, i, acc) ==
    IF i > Len(t) THEN Malformed
    ELSE IF t[i] = "]" THEN [kind |-> "arr", val |-> acc, next |-> i + 1]
    ELSE IF t[i] = "," /\ acc # << >> THEN ParseElements(t, i + 1, acc)
    ELSE LET v == ParseValue(t, i) IN
         IF v.kind = "malformed" THEN Malformed
         ELSE ParseElements(t, v.next, Append(acc, v))

\* json.loads of the whole text
ParseJson(t) ==
    LET v == ParseValue(t, 1) IN
    IF v.kind # "malformed" /\ v.next = Len(t) + 1 THEN v ELSE Malformed

\* the result of a validation that failed
ValidationError == [cls |-> "ValidationError"]

\* the member of an object with a given name
HasMember(obj, k) == \E i \in 1..Len(obj.val) : obj.val[i][1] = <<k>>

Member(obj, k) ==
    obj.val[CHOOSE i \in 1..Len(obj.val) :
              /\ obj.val[i][1] = <<k>>
              /\ \A j \in (i + 1)..Len(obj.val) : obj.val[j][1] # <<k>>][2]

\* a required str field is present and a string
IsStr(obj, k) == HasMember(obj, k) /\ Member(obj, k).kind = "str"

\* the status field accepts a missing member, null, or the name of a Status
StatusOk(obj) ==
    \/ ~HasMember(obj, "status")
    \/ Member(obj, "status").kind = "null"
    \/ /\ Member(obj, "status").kind = "str"
       /\ Member(obj, "status").val \in {<<"IN_PROGRESS">>, <<"COMPLETED">>, <<"ERROR">>}

\* status: Status | None = Field(default=None)
StatusOf(obj) ==
    IF ~HasMember(obj, "status") \/ Member(obj, "status").kind = "null"
    THEN None
    ELSE Member(obj, "status").val[1]

\* the actor is kept as one token
ActorOf(obj) ==
    IF Len(Member(obj, "actor").val) = 1 THEN Member(obj, "actor").val[1] ELSE "?"

\* validation of an object as a Step; members that are no fields are ignored
ValidateStep(obj) ==
    IF obj.kind # "obj" THEN ValidationError
    ELSE IF ~(StatusOk(obj) /\ IsStr(obj, "actor") /\ IsStr(obj, "thought")
              /\ IsStr(obj, "observation"))
    THEN ValidationError
    ELSE Step(StatusOf(obj), ActorOf(obj), Member(obj, "thought").val,
              Member(obj, "observation").val)

\* validation of the action_steps member: absent means the empty list
ValidateActionSteps(obj) ==
    IF ~HasMember(obj, "action_steps") THEN << >>
    ELSE IF Member(obj, "action_steps").kind # "arr" THEN <<ValidationError>>
    ELSE LET arr == Member(obj, "action_steps").val
         IN  [i \in 1..Len(arr) |-> ValidateStep(arr[i])]

\* validation of an object as a ToolCallStep
ValidateToolCallStep(obj) ==
    IF ValidateStep(obj) = ValidationError THEN ValidationError
    ELSE IF ~(IsStr(obj, "action") /\ IsStr(obj, "action_input")) THEN ValidationError
    ELSE IF \E i \in 1..Len(ValidateActionSteps(obj)) :
              ValidateActionSteps(obj)[i] = ValidationError
    THEN ValidationError
    ELSE ToolCallStep(StatusOf(obj), ActorOf(obj), Member(obj, "thought").val,
                      Member(obj, "observation").val, Member(obj, "action").val,
                      Member(obj, "action_input").val, ValidateActionSteps(obj))

\* JsonSchema.deserialize(json_str, cls): TypeAdapter(cls).validate_json
deserialize(t, cls) ==
    LET v == ParseJson(t) IN
    IF v.kind = "malformed" THEN ValidationError
    ELSE IF cls = "ToolCallStep" THEN ValidateToolCallStep(v)
    ELSE ValidateStep(v)

\* the texts of the steps that are serialized: empty, plain, quoted, with a
\* backslash before a letter, with a line break, with a non-ASCII character
SerTexts ==
    { << >>, <<"a">>, <<QUOTE, "a", QUOTE>>, <<BSLASH, "n">>, <<"a", NEWLINE>>, <<"é">> }

\* the steps that are serialized
SerSteps ==
    { Step(st, ExecutorId, th, ob) :
        st \in ModelStatuses, th \in SerTexts, ob \in SerTexts }
    \cup
    { ToolCallStep(st, ExecutorId, <<"a">>, ob, <<"c", "a", "l", "l", " ", QUOTE, "t", QUOTE>>,
                   <<"{", QUOTE, "city", QUOTE, ":", QUOTE, "Rome", QUOTE, "}">>, sub) :
        st \in ModelStatuses, ob \in SerTexts,
        sub \in { << >>, <<Step(None, "searchFlights", <<"é">>, <<QUOTE>>)>> } }

\* a step is about to be serialized
SerStart ==
    /\ ExecIdle /\ LifeInit /\ NestIdle /\ CriticIdle /\ MoreIdle
    /\ ser_step \in SerSteps
    /\ ser_how \in Serializers
    /\ ser_text = None
    /\ ser_parsed = NoStep

\* the step is written as JSON text
Serialize ==
    /\ ser_text = None
    /\ ser_text' = SerializeStep(ser_step, ser_how)
    /\ UNCHANGED <<ser_step, ser_how, ser_parsed, execVars, lifeVars, nestVars, criticVars, moreVars>>

\* the text is parsed back into the class of the step
Deserialize ==
    /\ ser_text # None
    /\ ser_parsed = NoStep
    /\ ser_parsed' = deserialize(ser_text, ser_step.cls)
    /\ UNCHANGED <<ser_step, ser_how, ser_text, execVars, lifeVars, nestVars, criticVars, moreVars>>

SerNext ==
    \/ Serialize
    \/ Deserialize

SerSpec == SerStart /\ [][SerNext]_vars

\* ------------------------------------------------------------------ the Reviewer
\* the Reviewer operations that are followed
MaxReviews == 2

\* JsonSchema.serialize(steps): the steps of the ledger, each written by
\* JsonSchema.serialize, as one JSON array
RECURSIVE SerializeStepsFrom(_, _)
SerializeStepsFrom(ledger, i) ==
    IF i > Len(ledger) THEN << >>
    ELSE (IF i > 1 THEN <<",">> ELSE << >>)
         \o SerializeStep(ledger[i], "JsonSchema.serialize")
         \o SerializeStepsFrom(ledger, i + 1)

SerializeSteps(ledger) == <<"[">> \o SerializeStepsFrom(ledger, 1) \o <<"]">>

\* Agent.fill_slots("<steps>\n{{steps}}\n</steps>", mapping)
CriticPrompt(ledger) ==
    <<"<steps>", NEWLINE>> \o SerializeSteps(ledger) \o <<NEWLINE, "</steps>">>

\* ChatMessage(prompt), and the message of a completion
UserMessage(text) == [author |-> "user", text |-> text]

AssistantMessage(text) == [author |-> "assistant", text |-> text]

\* the Reviewer is idle and the executor holds a ledger with its first step
CriticStart ==
    /\ draft \in Drafts
    /\ check_last_step = TRUE
    /\ pc = "loop"
    /\ steps = <<FirstStep(draft)>>
    /\ suggestion = << >>
    /\ calls = << >>
    /\ with_error = FALSE
    /\ raised = None
    /\ returned = NoStep
    /\ gatewayLog = << >>
    /\ toolLog = << >>
    /\ reviewLog = << >>
    /\ found = 0
    /\ LifeInit /\ NestIdle /\ SerIdle /\ MoreIdle
    /\ critic_pc = "idle"
    /\ history = << >>
    /\ criticLog = << >>

\* what the Reviewer leaves alone besides the ledger
criticRest ==
    <<draft, check_last_step, pc, suggestion, calls, with_error, raised, returned,
      gatewayLog, toolLog, reviewLog, found, lifeVars, nestVars, serVars, moreVars>>

\* between two Reviewer operations the executor adds a step to the ledger,
\* as long as the last step leaves its loop running
LedgerGrows ==
    /\ critic_pc = "idle"
    /\ Len(steps) < MAX_STEPS
    /\ steps[Len(steps)].status = "IN_PROGRESS"
    /\ \E status \in {"IN_PROGRESS", "COMPLETED"} :
         steps' = add_step(steps,
                     Step(status, ExecutorId, <<"model thought">>, <<"model observation">>))
    /\ UNCHANGED <<criticRest, criticVars>>

\* one entry of criticLog: the operation, the ledger it was given, the
\* history it found, the prompt, the conversation of every query, the replies
CriticEntry(op) ==
    [op |-> op, ledger |-> steps, history_before |-> history,
     prompt |-> CriticPrompt(steps), sent |-> << >>, replies |-> << >>,
     returned |-> NoneText, raised |-> FALSE]

\* _review up to the first query: the personality, clear_conversation, the
\* prompt
ReviewBegin(op) ==
    /\ critic_pc = "idle"
    /\ Len(criticLog) < MaxReviews
    /\ history' = << >>
    /\ criticLog' = Append(criticLog, CriticEntry(op))
    /\ critic_pc' = "first"
    /\ UNCHANGED <<steps, criticRest>>

review_tool_call == ReviewBegin("review_tool_call")

review_conclusions == ReviewBegin("review_conclusions")

\* the text _review returns if it keeps the first reply
ReviewResult_first(replies) == replies[1]

\* return self.chat(prompt).get_text() of the second query
ReviewResult(replies) == replies[2]

\* self.chat(prompt): the history and the prompt go to the model, then the
\* prompt and the reply are added to the history
CriticChat ==
    /\ critic_pc \in {"first", "second"}
    /\ \E reply \in ReviewerReplies :
         LET e == criticLog[Len(criticLog)]
             conversation == Append(history, UserMessage(e.prompt))
             replies == Append(e.replies, reply)
         IN  /\ history' = conversation \o <<AssistantMessage(reply)>>
             /\ criticLog' = [criticLog EXCEPT ![Len(criticLog)] =
                    [e EXCEPT !.sent = Append(e.sent, conversation),
                              !.replies = replies,
                              !.returned = IF critic_pc = "second"
                                           THEN ReviewResult(replies) ELSE NoneText]]
    /\ critic_pc' = IF critic_pc = "first" THEN "second" ELSE "idle"
    /\ UNCHANGED <<steps, criticRest>>

\* self.chat(prompt) raises: the history is as it was and the exception
\* leaves _review
CriticChatRaises ==
    /\ critic_pc \in {"first", "second"}
    /\ criticLog' = [criticLog EXCEPT ![Len(criticLog)].raised = TRUE]
    /\ critic_pc' = "idle"
    /\ UNCHANGED <<steps, history, criticRest>>

CriticNext ==
    \/ LedgerGrows
    \/ review_tool_call
    \/ review_conclusions
    \/ CriticChat
    \/ CriticChatRaises

CriticSpec == CriticStart /\ [][CriticNext]_vars

\* ------------------------------------------------------------------ the Agent base class
\* the calls of chat and complete that are followed
MaxTurns == 2

\* the largest finite max_history_length and max_conversation_steps
MaxLimit == 3

\* ChatMessage objects: the author and the kind of their parts
TextMessage(author, text) == [author |-> author, kind |-> "text", text |-> text]

ToolCallsMessage == [author |-> "bot", kind |-> "tool_calls", text |-> << >>]

ToolCallResultsMessage == [author |-> "user", kind |-> "tool_call_results", text |-> << >>]

has_tool_call_results(m) == m.kind = "tool_call_results"

\* the messages chat is called with: a string, one message, several messages
NewMessages ==
    { <<TextMessage("user", <<"hello">>)>>,
      <<ToolCallResultsMessage>>,
      <<ToolCallResultsMessage, TextMessage("user", <<"hello">>)>> }

\* the prompts complete is called with
SinglePrompts == { TextMessage("user", <<"hello">>), ToolCallResultsMessage }

\* completion.message of the model
Completions == { TextMessage("bot", <<"ok">>), ToolCallsMessage }

\* the values of Agent.personality: unset, empty, a text
Personalities == { NoneText, << >>, <<"You are a helpful assistant.">> }

\* the values of a length limit
Limits == (0..MaxLimit) \cup {Inf}

\* len(x) > limit
Exceeds(n, limit) == limit # Inf /\ n > limit

\* while messages and messages[0].has_tool_call_results(): messages.pop(0)
RECURSIVE DropLeadingResults(_)
DropLeadingResults(messages) ==
    IF messages # << >> /\ has_tool_call_results(Head(messages))
    THEN DropLeadingResults(Tail(messages))
    ELSE messages

\* del x[: len(x) - limit] when len(x) > limit
CutFront(x, limit) ==
    IF Exceeds(Len(x), limit) THEN SubSeq(x, Len(x) - limit + 1, Len(x)) ELSE x

\* the messages left before the personality is inserted
Trimmed(messages, mcs) == CutFront(DropLeadingResults(messages), mcs)

\* if not messages: raise ValueError(...)
trim_raises(messages, mcs) == Trimmed(messages, mcs) = << >>

\* Agent._trim_conversation, when it does not raise
trim_conversation(messages, mcs, pers) ==
    IF pers # NoneText /\ pers # << >>
    THEN <<TextMessage("developer", pers)>> \o Trimmed(messages, mcs)
    ELSE Trimmed(messages, mcs)

\* the history update of chat that keeps the oldest messages
HistoryAfterChat_keepsOldest(h, new_messages, reply, mhl) ==
    LET all == h \o new_messages \o <<reply>> IN
    IF Exceeds(Len(all), mhl) THEN SubSeq(all, 1, mhl) ELSE all

\* history.extend(new_messages); history.append(completion.message); the cut
HistoryAfterChat(h, new_messages, reply, mhl) ==
    CutFront(h \o new_messages \o <<reply>>, mhl)

\* a complete that records its exchange as chat does
HistoryAfterComplete_asChat(h, single, reply) == h \o <<single, reply>>

\* complete never assigns self.history
HistoryAfterComplete(h, single, reply) == h

\* the agent is constructed and configured, its history is empty
AgentStart ==
    /\ ExecIdle /\ LifeInit /\ NestIdle /\ SerIdle /\ SlotIdle /\ PeaceIdle
    /\ critic_pc = "idle"
    /\ criticLog = << >>
    /\ history = << >>
    /\ max_history_length \in Limits
    /\ max_conversation_steps \in Limits
    /\ personality \in Personalities
    /\ agentLog = << >>

\* what chat and complete leave alone besides the history and the log
agentRest ==
    <<execVars, lifeVars, nestVars, serVars, slotVars, peaceVars, critic_pc, criticLog,
      max_history_length, max_conversation_steps, personality>>

NoConversation == <<[author |-> "<None>", kind |-> "<None>", text |-> << >>]>>

NoMessage == [author |-> "<None>", kind |-> "<None>", text |-> << >>]

\* one entry of agentLog
AgentEntry(op, new_messages, sent, outcome, reply, after) ==
    [op |-> op, history_before |-> history, new_messages |-> new_messages,
     sent |-> sent, outcome |-> outcome, reply |-> reply, history_after |-> after]

\* chat: the trimming or the model call raises
Agent_chat_raises ==
    /\ Len(agentLog) < MaxTurns
    /\ \E new_messages \in NewMessages :
         LET conversation == history \o new_messages IN
         IF trim_raises(conversation, max_conversation_steps)
         THEN agentLog' = Append(agentLog,
                  AgentEntry("chat", new_messages, NoConversation, "ValueError",
                             NoMessage, history))
         ELSE agentLog' = Append(agentLog,
                  AgentEntry("chat", new_messages,
                             trim_conversation(conversation, max_conversation_steps,
                                               personality),
                             "raised", NoMessage, history))
    /\ UNCHANGED <<history, agentRest>>

\* chat: the model replies
Agent_chat ==
    /\ Len(agentLog) < MaxTurns
    /\ \E new_messages \in NewMessages, reply \in Completions :
         LET conversation == history \o new_messages
             after == HistoryAfterChat(history, new_messages, reply, max_history_length)
         IN  /\ ~trim_raises(conversation, max_conversation_steps)
             /\ history' = after
             /\ agentLog' = Append(agentLog,
                    AgentEntry("chat", new_messages,
                               trim_conversation(conversation, max_conversation_steps,
                                                 personality),
                               "returned", reply, after))
    /\ UNCHANGED agentRest

\* complete: the trimming or the model call raises
Agent_complete_raises ==
    /\ Len(agentLog) < MaxTurns
    /\ \E single \in SinglePrompts :
         IF trim_raises(<<single>>, max_conversation_steps)
         THEN agentLog' = Append(agentLog,
                  AgentEntry("complete", <<single>>, NoConversation, "ValueError",
                             NoMessage, history))
         ELSE agentLog' = Append(agentLog,
                  AgentEntry("complete", <<single>>,
                             trim_conversation(<<single>>, max_conversation_steps,
                                               personality),
                             "raised", NoMessage, history))
    /\ UNCHANGED <<history, agentRest>>

\* complete: the model replies
Agent_complete ==
    /\ Len(agentLog) < MaxTurns
    /\ \E single \in SinglePrompts, reply \in Completions :
         LET after == HistoryAfterComplete(history, single, reply) IN
         /\ ~trim_raises(<<single>>, max_conversation_steps)
         /\ history' = after
         /\ agentLog' = Append(agentLog,
                AgentEntry("complete", <<single>>,
                           trim_conversation(<<single>>, max_conversation_steps,
                                             personality),
                           "returned", reply, after))
    /\ UNCHANGED agentRest

AgentNext ==
    \/ Agent_chat
    \/ Agent_chat_raises
    \/ Agent_complete
    \/ Agent_complete_raises

AgentSpec == AgentStart /\ [][AgentNext]_vars

\* ------------------------------------------------------------------ templates
\* the pieces a template is put together from
MaxPieces == 3

\* texts are spelled one character per token here
OPEN == <<"{", "{">>

CLOSE == <<"}", "}">>

TemplatePieces ==
    { OPEN \o <<"a">> \o CLOSE,
      OPEN \o <<"x">> \o CLOSE,
      OPEN \o <<" ", "a", " ">> \o CLOSE,
      OPEN, CLOSE, <<"{">>, <<"}">>, <<"a">>, <<" ">> }

RECURSIVE TemplatesUpTo(_)
TemplatesUpTo(n) ==
    IF n = 0 THEN { << >> }
    ELSE LET shorter == TemplatesUpTo(n - 1) IN
         shorter \cup { t \o p : t \in shorter, p \in TemplatePieces }

Templates == TemplatesUpTo(MaxPieces)

\* the slot maps: the key a is absent, holds a text, holds None, holds a text
\* with a placeholder; the key x is in no map
SlotMaps ==
    { << >>,
      << << <<"a">>, <<"v">> >> >>,
      << << <<"a">>, NoneText >> >>,
      << << <<"a">>, OPEN \o <<"a">> \o CLOSE >> >>,
      << << <<"a">>, OPEN \o <<"x">> \o CLOSE >> >> }

\* str.strip() for the blank
RECURSIVE strip(_)
strip(t) ==
    IF t = << >> THEN t
    ELSE IF Head(t) = " " THEN strip(Tail(t))
    ELSE IF t[Len(t)] = " " THEN strip(SubSeq(t, 1, Len(t) - 1))
    ELSE t

\* the first position from i on that holds "}", or 0
RECURSIVE FirstClose(_, _)
FirstClose(t, i) ==
    IF i > Len(t) THEN 0
    ELSE IF t[i] = "}" THEN i
    ELSE FirstClose(t, i + 1)

\* the regular expression \{\{([^}]+)\}\} tried at position i: the position
\* of the last character of the match, or 0.  [^}]+ takes every character up
\* to the first "}", and no shorter group can be followed by "}}".
MatchEnd(t, i) ==
    IF i + 1 <= Len(t) /\ t[i] = "{" /\ t[i + 1] = "{"
    THEN LET j == FirstClose(t, i + 2) IN
         IF j > i + 2 /\ j + 1 <= Len(t) /\ t[j + 1] = "}" THEN j + 1 ELSE 0
    ELSE 0

\* slots.get(key)
slots_get(slots, key) == IF HasKey(slots, key) THEN ValueOf(slots, key) ELSE NoneText

\* _sub(match), given match.group(1)
sub(group, slots) ==
    LET value == slots_get(slots, strip(group)) IN
    IF value = NoneText THEN << >> ELSE value

\* re.sub(pattern, _sub, template): the matches are found from left to right
\* in the template, what replaces them is not looked at again
RECURSIVE re_sub(_, _, _)
re_sub(t, i, slots) ==
    IF i > Len(t) THEN << >>
    ELSE LET e == MatchEnd(t, i) IN
         IF e = 0 THEN <<t[i]>> \o re_sub(t, i + 1, slots)
         ELSE sub(SubSeq(t, i + 2, e - 2), slots) \o re_sub(t, e + 1, slots)

\* Agent.fill_slots
fill_slots(template, slots) == re_sub(template, 1, slots)

\* a template and a slot map are about to be given to fill_slots
SlotStart ==
    /\ ExecIdle /\ LifeInit /\ NestIdle /\ CriticIdle /\ SerIdle /\ AgentIdle /\ PeaceIdle
    /\ slot_template \in Templates
    /\ slot_map \in SlotMaps
    /\ slot_result = NoneText

FillSlots ==
    /\ slot_result = NoneText
    /\ slot_result' = fill_slots(slot_template, slot_map)
    /\ UNCHANGED <<slot_template, slot_map, execVars, lifeVars, nestVars, criticVars,
                   serVars, agentVars, peaceVars>>

SlotNext == FillSlots

SlotSpec == SlotStart /\ [][SlotNext]_vars

\* ------------------------------------------------------------------ the PEACE tasks
\* the calls of the task APIs that are followed, and the longest canned list
MaxCalls == 3

MaxTasks == 2

\* Peace.Task, with the two fields that identify a task
Task(time_created, customer_number) ==
    [time_created |-> time_created, customer_number |-> customer_number]

TaskPool ==
    { Task(<<"t1">>, <<"c1">>), Task(<<"t2">>, <<"c1">>), Task(<<"t1">>, <<"c2">>) }

\* the lists of k tasks
RECURSIVE TaskLists(_)
TaskLists(k) ==
    IF k = 0 THEN { << >> }
    ELSE { Append(l, t) : l \in TaskLists(k - 1), t \in TaskPool }

\* the scenario's canned output: time created and customer number together
\* identify a task, so no list holds a task twice
CannedLists ==
    { l \in UNION { TaskLists(k) : k \in 0..MaxTasks } :
        \A i, j \in 1..Len(l) : i # j => l[i] # l[j] }

\* the arguments of the calls
TaskKeys ==
    { <<<<"t1">>, <<"c1">>>>, <<<<"t2">>, <<"c1">>>>, <<<<"t1">>, <<"c2">>>>,
      <<<<"t9">>, <<"c1">>>> }

AssignArguments ==
    { << <<"thought", <<"assign">> >>, <<"timeCreated", k[1]>>, <<"customerNumber", k[2]>>,
         <<"operatorId", op>> >> : k \in TaskKeys, op \in { <<"42">>, <<"7">> } }
    \cup { << <<"timeCreated", <<"t1">> >>, <<"customerNumber", <<"c1">> >> >> }

CloseArguments ==
    { << <<"thought", <<"close">> >>, <<"timeCreated", k[1]>>, <<"customerNumber", k[2]>> >> :
        k \in TaskKeys }

GetArguments ==
    { << <<"thought", <<"list">> >> >>,
      << <<"customerNumber", <<"c1">> >> >>,
      << <<"filterBy", <<"Customer Number">> >>, <<"filterValue", <<"c2">> >> >>,
      << <<"filterBy", <<"Customer Number">> >> >> }

\* self.get_string(name, args) or ""
StringOrEmpty(name, args) ==
    IF get_string(name, args) = NoneText THEN << >> ELSE get_string(name, args)

\* t.time_created == time_created and t.customer_number == customer_number
SameTask(t, time_created, customer_number) ==
    t.time_created = time_created /\ t.customer_number = customer_number

\* the position of the first task of the list with this key, or 0
FirstIndex(tasks, time_created, customer_number) ==
    IF \E i \in 1..Len(tasks) : SameTask(tasks[i], time_created, customer_number)
    THEN CHOOSE i \in 1..Len(tasks) :
           /\ SameTask(tasks[i], time_created, customer_number)
           /\ \A j \in 1..(i - 1) : ~SameTask(tasks[j], time_created, customer_number)
    ELSE 0

\* a pop that leaves the list as it is
PopAt_keeps(tasks, i) == tasks

\* tasks.pop(i)
PopAt(tasks, i) == SubSeq(tasks, 1, i - 1) \o SubSeq(tasks, i + 1, Len(tasks))

\* ExecutionContext.filter_tasks for the filters of GetArguments
filter_tasks(tasks, filter_by, filter_value, customer_number) ==
    SelectSeq(tasks, LAMBDA t :
        /\ (customer_number # NoneText /\ customer_number # << >>)
              => t.customer_number = customer_number
        /\ (filter_by # NoneText /\ filter_by # << >> /\ filter_value # NoneText)
              => (filter_by = <<"Customer Number">> /\ t.customer_number = filter_value))

\* the result texts; an error text starts with the token ERROR:
ErrorResult(text) == <<"ERROR:", text>>

OkResult(text) == <<text>>

IsErrorResult(result) == result # << >> /\ Head(result) = "ERROR:"

\* an execution context has been created for a scenario
PeaceStart ==
    /\ ExecIdle /\ LifeInit /\ NestIdle /\ CriticIdle /\ SerIdle /\ AgentIdle /\ SlotIdle
    /\ canned_tasks \in CannedLists
    /\ unassigned_tasks = NoTasks
    /\ operator_tasks = << >>
    /\ peaceLog = << >>

peaceRest ==
    <<execVars, lifeVars, nestVars, criticVars, serVars, agentVars, slotVars, canned_tasks>>

\* one entry of peaceLog
PeaceEntry(api, args, outcome, result, unassigned_after, operator_after) ==
    [api |-> api, arguments |-> args, outcome |-> outcome, result |-> result,
     unassigned_before |-> unassigned_tasks, operator_before |-> operator_tasks,
     unassigned_after |-> unassigned_after, operator_after |-> operator_after]

\* Peace.GetUnassignedTasksApi.invoke
GetUnassignedTasks ==
    /\ Len(peaceLog) < MaxCalls
    /\ \E args \in GetArguments :
         LET loaded == IF unassigned_tasks = NoTasks THEN canned_tasks ELSE unassigned_tasks
             filter_by == get_string("filterBy", args)
             filter_value == get_string("filterValue", args)
             customer_number == get_string("customerNumber", args)
         IN  /\ unassigned_tasks' = loaded
             /\ peaceLog' = Append(peaceLog,
                    IF filter_by # NoneText /\ filter_value = NoneText
                    THEN PeaceEntry("getUnassignedTasks", args, "ValueError", << >>,
                                    loaded, operator_tasks)
                    ELSE PeaceEntry("getUnassignedTasks", args, "returned",
                                    OkResult(filter_tasks(loaded, filter_by, filter_value,
                                                          customer_number)),
                                    loaded, operator_tasks))
    /\ UNCHANGED <<operator_tasks, peaceRest>>

\* Peace.AssignTaskApi.invoke
AssignTask ==
    /\ Len(peaceLog) < MaxCalls
    /\ \E args \in AssignArguments :
         LET time_created == StringOrEmpty("timeCreated", args)
             customer_number == StringOrEmpty("customerNumber", args)
             operator_id == StringOrEmpty("operatorId", args)
             i == FirstIndex(unassigned_tasks, time_created, customer_number)
         IN  IF operator_id # <<"42">>
             THEN /\ peaceLog' = Append(peaceLog,
                         PeaceEntry("assignTask", args, "returned",
                                    ErrorResult("You are trying to assign task to an operator other than yourself."),
                                    unassigned_tasks, operator_tasks))
                  /\ UNCHANGED <<unassigned_tasks, operator_tasks>>
             ELSE IF unassigned_tasks = NoTasks
             THEN /\ peaceLog' = Append(peaceLog,
                         PeaceEntry("assignTask", args, "returned",
                                    ErrorResult("No task exists."),
                                    unassigned_tasks, operator_tasks))
                  /\ UNCHANGED <<unassigned_tasks, operator_tasks>>
             ELSE IF FirstIndex(operator_tasks, time_created, customer_number) # 0
             THEN /\ peaceLog' = Append(peaceLog,
                         PeaceEntry("assignTask", args, "returned",
                                    ErrorResult("Task is already assigned to operator ID=42"),
                                    unassigned_tasks, operator_tasks))
                  /\ UNCHANGED <<unassigned_tasks, operator_tasks>>
             ELSE IF i # 0
             THEN /\ unassigned_tasks' = PopAt(unassigned_tasks, i)
                  /\ operator_tasks' = Append(operator_tasks, unassigned_tasks[i])
                  /\ peaceLog' = Append(peaceLog,
                         PeaceEntry("assignTask", args, "returned",
                                    OkResult("Task has been successfully assigned to operator"),
                                    unassigned_tasks', operator_tasks'))
             ELSE /\ peaceLog' = Append(peaceLog,
                         PeaceEntry("assignTask", args, "returned",
                                    ErrorResult("No task exists."),
                                    unassigned_tasks, operator_tasks))
                  /\ UNCHANGED <<unassigned_tasks, operator_tasks>>
    /\ UNCHANGED peaceRest

\* Peace.CloseTaskApi.invoke
CloseTask ==
    /\ Len(peaceLog) < MaxCalls
    /\ \E args \in CloseArguments :
         LET time_created == StringOrEmpty("timeCreated", args)
             customer_number == StringOrEmpty("customerNumber", args)
             i == FirstIndex(operator_tasks, time_created, customer_number)
         IN  IF i # 0
             THEN /\ operator_tasks' = PopAt(operator_tasks, i)
                  /\ peaceLog' = Append(peaceLog,
                         PeaceEntry("closeTask", args, "returned",
                                    OkResult("Task has been successfully closed."),
                                    unassigned_tasks, operator_tasks'))
             ELSE /\ peaceLog' = Append(peaceLog,
                         PeaceEntry("closeTask", args, "returned",
                                    ErrorResult("Task does not exist or has not been assigned to you"),
                                    unassigned_tasks, operator_tasks))
                  /\ UNCHANGED operator_tasks
    /\ UNCHANGED <<unassigned_tasks, peaceRest>>

PeaceNext ==
    \/ GetUnassignedTasks
    \/ AssignTask
    \/ CloseTask

PeaceSpec == PeaceStart /\ [][PeaceNext]_vars

\* ------------------------------------------------------------------ properties
Terminal == {"COMPLETED", "ERROR"}

\* execute has ended, by return or by an exception
Ended == pc \in {"done", "raised"}

\* the gateway calls that ended in a failure of the gateway
GatewayFailed(g) == g.outcome \in {"raise", "truncated"}

\* the reply mentions "continue" in any letter case
SaysContinue(reply) ==
    \E i \in 1..(Len(reply) - 7) :
      Lower(SubSeq(reply, i, i + 7)) = <<"c","o","n","t","i","n","u","e">>

\* the Reviewer operations of reviewLog that answered review_conclusions with
\* a text lacking "continue" after a non-tool step declared COMPLETED or ERROR
Vetoes ==
    { i \in 1..Len(reviewLog) :
        /\ reviewLog[i].op = "review_conclusions"
        /\ reviewLog[i].reply # NoneText
        /\ ~SaysContinue(reviewLog[i].reply)
        /\ \/ gatewayLog[reviewLog[i].chat].outcome = "unparsable"
           \/ /\ gatewayLog[reviewLog[i].chat].outcome = "step"
              /\ gatewayLog[reviewLog[i].chat].status \in Terminal }

\* C1 (as stated): when execute returns, the ledger holds at most MAX_STEPS
\* entries, the seed step included.
C1_Original == pc = "done" => Len(steps) <= MAX_STEPS

\* how far execute has come: every call it has made and every ledger entry
\* counts 3, the position inside an iteration counts up to 3
Progress ==
    3 * (Len(gatewayLog) + Len(toolLog) + Len(reviewLog) + Len(steps))
    + (CASE pc \in {"done", "raised"} -> 3
         [] pc \in {"loop", "exit"} -> 2
         [] pc = "batch_end" -> 1
         [] OTHER -> 0)

\* C1 (amended): execute always ends, and when it returns the ledger holds at
\* most MAX_STEPS + 2 entries: a batch may take the ledger one entry past
\* MAX_STEPS before it is cut, and the overflow step comes on top.
\* Termination is stated by a variant: until the call has ended it can take a
\* step, every step of the call increases Progress, and Progress never exceeds
\* a number fixed by MAX_STEPS.
C1_TerminatesWithinBudget ==
    /\ [](Ended \/ ENABLED Next)
    /\ [][Ended \/ Progress' > Progress]_vars
    /\ [](Progress <= 12 * (MAX_STEPS + 2))
    /\ [](pc = "done" => Len(steps) <= MAX_STEPS + 2)

C1_Witness == pc = "done" /\ Len(steps) = MAX_STEPS + 2

\* what C2 and C3 say of draft d: after a veto the vetoed step is
\* IN_PROGRESS, execute does not return before another gateway call, and the
\* prompt of that call carries the critique
VetoHonoured(d) ==
    draft = d =>
      \A i \in Vetoes :
        LET r == reviewLog[i] IN
        /\ steps[r.nsteps].status = "IN_PROGRESS"
        /\ pc = "done" => Len(gatewayLog) > r.chat
        /\ Len(gatewayLog) > r.chat => gatewayLog[r.chat + 1].suggestion = r.reply

\* C2 (as stated): in the java draft a vetoed conclusion is reset to
\* IN_PROGRESS, the loop runs another iteration, and that iteration's prompt
\* carries the critique.
C2_Original == VetoHonoured("java")

\* C2 (amended): in the java draft a vetoed conclusion is reset to
\* IN_PROGRESS; if the ledger then holds fewer than MAX_STEPS entries the loop
\* runs another iteration whose prompt carries the critique, otherwise the run
\* makes no further gateway call and returns the overflow step.
C2_VetoWithinBudget ==
    draft = "java" =>
      \A i \in Vetoes :
        LET r == reviewLog[i] IN
        /\ steps[r.nsteps].status = "IN_PROGRESS"
        /\ Len(gatewayLog) > r.chat => gatewayLog[r.chat + 1].suggestion = r.reply
        /\ IF r.nsteps < MAX_STEPS
           THEN pc = "done" => Len(gatewayLog) > r.chat
           ELSE /\ Len(gatewayLog) = r.chat
                /\ pc = "done" => returned = OverflowStep

C2_Witness ==
    /\ draft = "java"
    /\ \E i \in Vetoes :
         /\ reviewLog[i].nsteps < MAX_STEPS
         /\ Len(gatewayLog) > reviewLog[i].chat
         /\ gatewayLog[reviewLog[i].chat].status = "COMPLETED"

\* C3: in the python draft a vetoed conclusion is reset to IN_PROGRESS and the
\* loop runs another iteration driven by the critique.
C3_Claim == VetoHonoured("python")

\* the ledger entry a gateway reply without tool calls produced
StepOfReply(k) == steps[gatewayLog[k].nsteps + 1]

\* C4: when the loop stops on a non-tool step with a terminal status, no
\* overflow step is added and execute returns that step, at every ledger
\* length.
C4_Claim ==
    (/\ pc = "done"
     /\ gatewayLog # << >>
     /\ gatewayLog[Len(gatewayLog)].outcome \in {"step", "unparsable"}
     /\ StepOfReply(Len(gatewayLog)).status \in Terminal)
    => /\ Len(steps) = gatewayLog[Len(gatewayLog)].nsteps + 1
       /\ returned = StepOfReply(Len(gatewayLog))

\* C5: a failure of the gateway never leaves execute as an exception.
C5_Claim ==
    (gatewayLog # << >> /\ GatewayFailed(gatewayLog[Len(gatewayLog)]))
    => raised = None

\* C6: after a gateway failure execute adds exactly one ERROR step, makes no
\* further gateway, tool or Reviewer call, and returns that step.
C6_Claim ==
    (Ended /\ gatewayLog # << >> /\ GatewayFailed(gatewayLog[Len(gatewayLog)]))
    => LET g == gatewayLog[Len(gatewayLog)] IN
       /\ pc = "done"
       /\ Len(steps) = g.nsteps + 1
       /\ returned = steps[g.nsteps + 1]
       /\ returned.status = "ERROR"
       /\ IsToolCallStep(returned)
       /\ \A i \in 1..Len(toolLog) : toolLog[i].chat < Len(gatewayLog)
       /\ \A i \in 1..Len(reviewLog) : reviewLog[i].chat < Len(gatewayLog)

\* C7: if every gateway call raises, execute makes exactly one gateway call
\* and the last ledger entry has status ERROR.
C7_Claim ==
    (/\ Ended
     /\ gatewayLog # << >>
     /\ \A k \in 1..Len(gatewayLog) : gatewayLog[k].outcome = "raise")
    => /\ Len(gatewayLog) = 1
       /\ get_last_step(steps).status = "ERROR"

\* every gateway reply so far was a valid non-tool Step with status COMPLETED
AlwaysCompletedStep ==
    /\ gatewayLog # << >>
    /\ \A k \in 1..Len(gatewayLog) :
         gatewayLog[k].outcome = "step" /\ gatewayLog[k].status = "COMPLETED"

\* C8 (as stated): if the gateway always returns a valid non-tool Step with
\* status COMPLETED, the ledger ends with exactly 2 entries and execute
\* returns a COMPLETED step.
C8_Original ==
    (pc = "done" /\ AlwaysCompletedStep)
    => Len(steps) = 2 /\ returned.status = "COMPLETED"

\* C8 (amended): the same, provided every reply of review_conclusions in the
\* run contains "continue" (or last-step verification is off, so that there is
\* none).
C8_TwoEntriesUnlessVetoed ==
    (/\ pc = "done"
     /\ AlwaysCompletedStep
     /\ \A i \in 1..Len(reviewLog) :
          reviewLog[i].reply # NoneText /\ SaysContinue(reviewLog[i].reply))
    => Len(steps) = 2 /\ returned.status = "COMPLETED"

C8_Witness ==
    /\ pc = "done"
    /\ AlwaysCompletedStep
    /\ Len(reviewLog) = 1
    /\ reviewLog[1].reply = CONTINUE
    /\ Len(steps) = 2

\* the calls dispatched for gateway reply k
DispatchedFor(k) == { i \in 1..Len(toolLog) : toolLog[i].chat = k }

\* a dispatched call raised or returned a text mentioning "error" in any
\* letter case
Erred(t) ==
    \/ t.raises
    \/ /\ t.text # NoneText
       /\ \E i \in 1..(Len(t.text) - 4) :
            Lower(SubSeq(t.text, i, i + 4)) = <<"e","r","r","o","r">>

\* the Reviewer operations that followed gateway reply k
ReviewsFor(k) == { i \in 1..Len(reviewLog) : reviewLog[i].chat = k }

\* C9: the prompt that follows a batch of tool calls carries the reply of
\* review_tool_call if any call of the batch erred, whatever its place in the
\* batch, and otherwise the literal CONTINUE with no Reviewer call.
C9_SuggestionAfterBatch ==
    \A k \in 1..(Len(gatewayLog) - 1) :
      gatewayLog[k].outcome = "tool_calls" =>
        IF \E i \in DispatchedFor(k) : Erred(toolLog[i])
        THEN \E i \in ReviewsFor(k) :
               /\ reviewLog[i].op = "review_tool_call"
               /\ reviewLog[i].reply = gatewayLog[k + 1].suggestion
        ELSE /\ gatewayLog[k + 1].suggestion = CONTINUE
             /\ ReviewsFor(k) = {}

C9_Witness ==
    \E k \in 1..(Len(gatewayLog) - 1) :
      /\ gatewayLog[k].outcome = "tool_calls"
      /\ Cardinality(DispatchedFor(k)) = 2
      /\ \E i \in DispatchedFor(k) :
           /\ Erred(toolLog[i])
           /\ i + 1 \in DispatchedFor(k)
           /\ ~Erred(toolLog[i + 1])
      /\ gatewayLog[k + 1].suggestion = <<"R","e","t","r","y">>

\* C10: a tool that raises yields exactly one IN_PROGRESS ToolCallStep with
\* the error text, the remaining calls of the batch are dispatched, and the
\* loop goes on.
C10_Claim ==
    \A i \in 1..Len(toolLog) :
      LET t == toolLog[i] IN
      t.raises =>
        /\ raised # "ValueError"
        /\ Len(steps) > t.nsteps
        /\ steps[t.nsteps + 1] =
             [steps[t.nsteps + 1] EXCEPT
                !.cls = "ToolCallStep", !.status = "IN_PROGRESS",
                !.observation = <<"E","r","r","o","r",":"," ">> \o t.text]
        /\ pc \notin {"tools"} =>
             Cardinality(DispatchedFor(t.chat)) = gatewayLog[t.chat].ncalls
        /\ pc = "done" => Len(gatewayLog) > t.chat

\* the dispatched calls that returned None or the empty string and whose
\* arguments carry no empty thought
NullOrEmptyResults ==
    { i \in 1..Len(toolLog) :
        /\ ~toolLog[i].raises
        /\ toolLog[i].text \in {NoneText, << >>}
        /\ ThoughtOf(toolLog[i].arguments, NO_THOUGHT_JAVA) # << >> }

\* C11: a call whose result is None or the empty string gets its ToolCallStep
\* like any other call, and execute does not raise.
C11_Claim ==
    \A i \in NullOrEmptyResults :
      /\ Len(steps) > toolLog[i].nsteps
      /\ IsToolCallStep(steps[toolLog[i].nsteps + 1])

\* every gateway reply so far was a valid non-tool Step with status IN_PROGRESS
AlwaysInProgressStep ==
    /\ gatewayLog # << >>
    /\ \A k \in 1..Len(gatewayLog) :
         gatewayLog[k].outcome = "step" /\ gatewayLog[k].status = "IN_PROGRESS"

JustStarted == pc = "loop" /\ gatewayLog = << >>

\* C14: whatever an earlier call left in the ledger, a call of execute starts
\* its loop on a ledger that holds the seed step and nothing else.
C14_StartsFromSeed ==
    JustStarted =>
      /\ Len(steps) = 1
      /\ steps[1].cls = "Step"
      /\ steps[1].status = "IN_PROGRESS"
      /\ steps[1].actor = ExecutorId
      /\ steps[1].observation = <<"Execution just started.">>

C14_Witness ==
    /\ JustStarted
    /\ found > 1
    /\ steps = <<FirstStep(draft)>>

\* the step from this state to the next records a review_conclusions reply
\* that lacks "continue"
VetoStep ==
    /\ Len(reviewLog') = Len(reviewLog) + 1
    /\ reviewLog'[Len(reviewLog')].op = "review_conclusions"
    /\ reviewLog'[Len(reviewLog')].reply # NoneText
    /\ ~SaysContinue(reviewLog'[Len(reviewLog')].reply)

\* C15: while a call of execute runs, the ledger only grows at its end, one
\* entry at a time, the seed step stays first, and the only change to an
\* existing entry is the veto setting the status of the last entry to
\* IN_PROGRESS.
C15_AppendOnly ==
    /\ [](pc # "idle" => steps # << >> /\ steps[1] = FirstStep(draft))
    /\ [][(pc # "idle" /\ ~Ended) =>
            LET n == Len(steps) IN
            /\ Len(steps') \in {n, n + 1}
            /\ \A i \in 1..(n - 1) : steps'[i] = steps[i]
            /\ \/ steps'[n] = steps[n]
               \/ /\ Len(steps') = n
                  /\ n > 1
                  /\ steps'[n] = [steps[n] EXCEPT !.status = "IN_PROGRESS"]
                  /\ VetoStep]_vars

C15_Witness ==
    /\ pc = "done"
    /\ Len(steps) > 3
    /\ \E i \in Vetoes :
         /\ gatewayLog[reviewLog[i].chat].status = "ERROR"
         /\ reviewLog[i].nsteps = 3
         /\ steps[3].status = "IN_PROGRESS"

\* C16: whenever execute returns, on every exit path, the step it returns is
\* the last entry of the ledger.
C16_ReturnsLastEntry ==
    pc = "done" => steps # << >> /\ returned = steps[Len(steps)]

\* a return where a parse failure filled the ledger and the overflow step was
\* added after it
C16_Witness ==
    /\ pc = "done"
    /\ returned = OverflowStep
    /\ steps[Len(steps)] = OverflowStep
    /\ gatewayLog[Len(gatewayLog)].outcome = "unparsable"

\* the gateway replies without tool calls whose step has been added and whose
\* check has been made
CheckedReplies ==
    { k \in 1..Len(gatewayLog) :
        /\ gatewayLog[k].outcome \in {"step", "unparsable"}
        /\ Len(steps) > gatewayLog[k].nsteps
        /\ k = Len(gatewayLog) => pc # "check" }

\* the status reply k's step had when it was added
StatusOfReply(k) ==
    IF gatewayLog[k].outcome = "unparsable" THEN "ERROR" ELSE gatewayLog[k].status

\* C17: review_conclusions is invoked for a non-tool step exactly when the
\* step was added with status COMPLETED or ERROR and check_last_step is on;
\* with check_last_step off such a step ends the loop.
C17_Claim ==
    \A k \in CheckedReplies :
      /\ (\E i \in ReviewsFor(k) : reviewLog[i].op = "review_conclusions")
           <=> (check_last_step /\ StatusOfReply(k) \in Terminal)
      /\ (~check_last_step /\ StatusOfReply(k) \in Terminal) => k = Len(gatewayLog)

\* C18: after a non-tool step with status IN_PROGRESS the next prompt carries
\* the draft's fixed strict instruction, and the Reviewer is not invoked for
\* that step.
C18_Claim ==
    \A k \in 1..(Len(gatewayLog) - 1) :
      (gatewayLog[k].outcome = "step" /\ gatewayLog[k].status = "IN_PROGRESS") =>
        /\ gatewayLog[k + 1].suggestion =
             (IF draft = "python" THEN STRICT_PYTHON ELSE STRICT_JAVA)
        /\ ReviewsFor(k) = {}

\* C19: a reply without tool calls that does not parse adds a fallback Step
\* with status ERROR, the raw text as observation and the parse failure in its
\* thought; with check_last_step off no further gateway call is made and
\* execute returns that step.
C19_Claim ==
    \A k \in 1..Len(gatewayLog) :
      gatewayLog[k].outcome = "unparsable" =>
        /\ Len(steps) > gatewayLog[k].nsteps
        /\ StepOfReply(k).cls = "Step"
        /\ StepOfReply(k).observation \in RawTexts
        /\ StepOfReply(k).thought[1] = "I stopped because I encountered this error: "
        /\ ~check_last_step =>
             /\ StepOfReply(k).status = "ERROR"
             /\ k = Len(gatewayLog)
             /\ pc = "done" => returned = StepOfReply(k)

\* C20: every ledger entry has the executor's id as its actor, whatever actor
\* the model wrote in a parsed step.
C20_ActorIsExecutor ==
    \A i \in 1..Len(steps) : steps[i].actor = ExecutorId

C20_Witness ==
    /\ \E k \in 1..Len(gatewayLog) :
         /\ gatewayLog[k].outcome = "step"
         /\ Len(steps) > gatewayLog[k].nsteps
         /\ StepOfReply(k).actor = ExecutorId
    /\ \E i \in 1..Len(steps) : IsToolCallStep(steps[i]) /\ steps[i].status = "ERROR"
    /\ pc = "done"


\* the replies that asked for exactly one tool call, which was dispatched and
\* returned without raising and without mentioning an error
SingleSuccessfulCalls ==
    { i \in 1..Len(toolLog) :
        /\ gatewayLog[toolLog[i].chat].ncalls = 1
        /\ ~Erred(toolLog[i]) }

\* C21: a reply with one successful tool call appends one IN_PROGRESS
\* ToolCallStep whose action names the tool, whose observation is the result
\* text and whose action_input is the serialized arguments without the
\* thought; the suggestion of the next prompt is the literal CONTINUE.
C21_Claim ==
    \A i \in SingleSuccessfulCalls :
      LET t == toolLog[i] IN
      /\ raised # "ValueError"
      /\ Len(steps) > t.nsteps
      /\ IsToolCallStep(steps[t.nsteps + 1])
      /\ steps[t.nsteps + 1].status = "IN_PROGRESS"
      /\ Contains(steps[t.nsteps + 1].action, <<t.tool>>)
      /\ steps[t.nsteps + 1].observation = t.text
      /\ steps[t.nsteps + 1].action_input = JsonDumps(ArgsNoThought(t.arguments))
      /\ Len(gatewayLog) > t.chat => gatewayLog[t.chat + 1].suggestion = CONTINUE


\* the entries a step adds to lifeLog
NewLifeEntries == { lifeLog'[i] : i \in (Len(lifeLog) + 1)..Len(lifeLog') }

\* C22: init binds a tool to an owner at most once.  An init on a tool that
\* is initialised or closed raises, and a step whose inits all raise leaves
\* every owner and closed flag as it was; a bound owner is never replaced and
\* a closed tool never gets an owner.
C22_InitBindsOnce ==
    [][/\ \A e \in NewLifeEntries :
             (e.op = "init" /\ (e.was_initialized \/ e.was_closed)) => e.raised # None
       /\ (\A e \in NewLifeEntries : e.op = "init" /\ e.raised # None) =>
             (tool_agent' = tool_agent /\ tool_closed' = tool_closed)
       /\ \A t \in ToolObjs :
             (is_initialized(tool_agent[t]) \/ tool_closed[t]) =>
                tool_agent'[t] = tool_agent[t]]_vars

\* an init on an initialised tool and an init on a closed, never initialised
\* tool have both been refused
C22_Witness ==
    /\ \E i \in 1..Len(lifeLog) :
         /\ lifeLog[i].op = "init" /\ lifeLog[i].was_initialized
         /\ lifeLog[i].raised = "RuntimeError"
    /\ \E i \in 1..Len(lifeLog) :
         /\ lifeLog[i].op = "init" /\ lifeLog[i].was_closed /\ ~lifeLog[i].was_initialized
         /\ lifeLog[i].agent # None
         /\ lifeLog[i].raised = "RuntimeError"
         /\ tool_agent[lifeLog[i].tool] = None

\* C23: an invoke on a tool that was never initialised, or that has been
\* closed, fails and does not execute the capability.
C23_Claim ==
    \A i \in 1..Len(lifeLog) :
      (lifeLog[i].op = "invoke" /\ (~lifeLog[i].was_initialized \/ lifeLog[i].was_closed)) =>
         (lifeLog[i].raised # None /\ ~lifeLog[i].executed)

\* the init calls tool t has received from the executor of the agent
InitCalls(t) ==
    { i \in 1..Len(lifeLog) :
        lifeLog[i].op = "init" /\ lifeLog[i].tool = t /\ lifeLog[i].agent = ExecutorId }

\* C24: once the agent's close() has returned, every tool supplied at its
\* construction has had init called exactly once and is closed.
C24_Claim ==
    agent_life.state = "closed" =>
      \A k \in 1..Len(agent_life.supplied) :
        /\ Cardinality(InitCalls(agent_life.supplied[k])) = 1
        /\ tool_closed[agent_life.supplied[k]]


\* the invocation a step starts
StartedInvoke == invokeLog'[Len(invokeLog')]

\* C25: an invoke of the nested agent without a question returns the error
\* result at once: execute is not entered, no gateway call is made and the
\* nested agent's ledger and the rest of its executor's state stay as they were.
C25_NoQuestionNoRun ==
    [][(/\ Len(invokeLog') > Len(invokeLog)
        /\ \/ ~HasKey(StartedInvoke.arguments, "question")
           \/ ValueOf(StartedInvoke.arguments, "question") = NoneText) =>
          (/\ ~StartedInvoke.entered
           /\ StartedInvoke.raised = None
           /\ StartedInvoke.result = NO_QUESTION
           /\ outer_pc' = "returned"
           /\ steps' = steps
           /\ gatewayLog' = gatewayLog
           /\ pc' = pc)]_vars

\* the second invoke came without a question and found the ledger of the run
\* before it
C25_Witness ==
    /\ Len(invokeLog) = 2
    /\ invokeLog[1].entered
    /\ ~HasKey(invokeLog[2].arguments, "question")
    /\ invokeLog[2].result = NO_QUESTION
    /\ Len(steps) >= 3
    /\ steps = invokeLog[2].nested_before
    /\ outer_pc = "returned"

\* the invocations with a question whose nested execute is over
FinishedRuns ==
    { i \in 1..Len(invokeLog) :
        /\ HasKey(invokeLog[i].arguments, "question")
        /\ ValueOf(invokeLog[i].arguments, "question") # NoneText
        /\ (i < Len(invokeLog) \/ outer_pc # "invoking") }

\* C26: an invoke with a question returns a result whose text is "ERROR: "
\* and the final step's observation if the nested execute ended with status
\* ERROR, and the final step's observation otherwise; a gateway failure is
\* such an ending.
C26_Claim ==
    \A i \in FinishedRuns :
      LET e == invokeLog[i] IN
      /\ e.raised = None
      /\ e.final # NoStep
      /\ e.result = IF e.final.status = "ERROR"
                    THEN <<"E","R","R","O","R",":"," ">> \o e.final.observation
                    ELSE e.final.observation

\* the nested executor is at rest
NestedAtRest == pc \in {"idle", "done", "raised"}

\* C27: the outer ledger changes only while the nested executor is at rest,
\* by one appended entry and without touching the nested ledger; the nested
\* ledger changes only inside an invoke the outer executor is waiting in, and
\* never together with the outer ledger.
C27_NestedRunBlocks ==
    [][/\ outer_steps' # outer_steps =>
            /\ NestedAtRest /\ pc' = pc /\ steps' = steps
            /\ outer_pc = "returned"
            /\ Len(outer_steps') = Len(outer_steps) + 1
            /\ SubSeq(outer_steps', 1, Len(outer_steps)) = outer_steps
       /\ steps' # steps => (outer_steps' = outer_steps /\ outer_pc' = "invoking")
       /\ pc' # pc => outer_pc' = "invoking"]_vars

\* the outer ToolCallStep of a nested run that made two gateway calls and
\* asked its Reviewer is in the outer ledger
C27_Witness ==
    /\ Len(outer_steps) = 2
    /\ IsToolCallStep(outer_steps[2])
    /\ invokeLog[1].entered /\ invokeLog[1].recorded
    /\ Len(gatewayLog) = 2
    /\ reviewLog # << >>
    /\ Len(steps) >= 3
    /\ pc = "done"

C30_RoundTrip ==
    ser_parsed # NoStep =>
      /\ ser_parsed.cls = ser_step.cls
      /\ ser_parsed.status = ser_step.status
      /\ ser_parsed.actor = ser_step.actor
      /\ ser_parsed.thought = ser_step.thought
      /\ ser_parsed.observation = ser_step.observation
      /\ IsToolCallStep(ser_step) =>
           /\ ser_parsed.action = ser_step.action
           /\ ser_parsed.action_input = ser_step.action_input

\* a ToolCallStep with null status, a line break in its observation and quotes
\* in its action input has gone through json.dumps and back
C30_Witness ==
    /\ ser_how = "json.dumps"
    /\ IsToolCallStep(ser_step)
    /\ ser_step.status = None
    /\ ser_step.observation = <<"a", NEWLINE>>
    /\ ser_step.action_steps # << >>
    /\ ser_parsed # NoStep
    /\ ser_parsed.status = None
    /\ ser_parsed.action_steps = << >>


C31_CompleteKeepsHistory ==
    [][(Len(agentLog') > Len(agentLog) /\ agentLog'[Len(agentLog')].op = "complete")
         => history' = history]_vars

\* complete returned a reply while the history held an earlier exchange, and
\* the history is still that exchange
C31_Witness ==
    /\ Len(agentLog) = 2
    /\ agentLog[2].op = "complete"
    /\ agentLog[2].outcome = "returned"
    /\ agentLog[2].history_before # << >>
    /\ history = agentLog[2].history_before

\* the first message of a conversation after the personality message
FirstAfterPersonality(sent) ==
    IF Head(sent).author = "developer" THEN sent[2] ELSE sent[1]

\* C32: no conversation sent to the model has a tool-call-result message as
\* its first message after the personality message.
C32_Claim ==
    \A i \in 1..Len(agentLog) :
        agentLog[i].sent # NoConversation
            => ~has_tool_call_results(FirstAfterPersonality(agentLog[i].sent))

\* C38: a chat that raises leaves the history as it was; a chat that returns
\* leaves the old history, the new messages and the reply, without as many
\* of its oldest messages as are needed to respect max_history_length.
C38_ChatUpdatesHistory ==
    \A i \in 1..Len(agentLog) :
        LET e == agentLog[i]
            all == e.history_before \o e.new_messages \o <<e.reply>>
            kept == Len(e.history_after)
        IN  /\ i = Len(agentLog) => history = e.history_after
            /\ e.op = "chat" /\ e.outcome # "returned" => e.history_after = e.history_before
            /\ e.op = "chat" /\ e.outcome = "returned" =>
                 /\ kept = (IF Exceeds(Len(all), max_history_length)
                            THEN max_history_length ELSE Len(all))
                 /\ e.history_after = SubSeq(all, Len(all) - kept + 1, Len(all))

\* a chat returned and its reply made the history longer than a positive
\* max_history_length, so that old messages were cut
C38_Witness ==
    /\ Len(agentLog) = 2
    /\ agentLog[2].op = "chat"
    /\ agentLog[2].outcome = "returned"
    /\ max_history_length = 3
    /\ Len(agentLog[2].history_before) = 3
    /\ Len(history) = 3
    /\ history[3] = agentLog[2].reply


\* what the claim lets a placeholder become: the value of a key of the slot
\* map (None as the empty text), the placeholder itself for any other key
SubAsClaimed(t, i, e, slots) ==
    LET key == strip(SubSeq(t, i + 2, e - 2)) IN
    IF HasKey(slots, key)
    THEN (IF ValueOf(slots, key) = NoneText THEN << >> ELSE ValueOf(slots, key))
    ELSE SubSeq(t, i, e)

RECURSIVE FillAsClaimed(_, _, _)
FillAsClaimed(t, i, slots) ==
    IF i > Len(t) THEN << >>
    ELSE LET e == MatchEnd(t, i) IN
         IF e = 0 THEN <<t[i]>> \o FillAsClaimed(t, i + 1, slots)
         ELSE SubAsClaimed(t, i, e, slots) \o FillAsClaimed(t, e + 1, slots)

\* C33: fill_slots replaces each placeholder whose key is in the slot map by
\* its value, None as the empty text, leaves every other placeholder
\* untouched and does not expand placeholders inside the values.
C33_Claim ==
    slot_result # NoneText => slot_result = FillAsClaimed(slot_template, 1, slot_map)


\* C34: the step execute returns has status COMPLETED or ERROR, on every
\* path that returns.
C34_ReturnsTerminal ==
    pc = "done" => (returned # NoStep /\ returned.status \in {"COMPLETED", "ERROR"})

\* execute returned after the model gave a step without status and after the
\* Reviewer vetoed a conclusion
C34_Witness ==
    /\ pc = "done"
    /\ returned.status \in {"COMPLETED", "ERROR"}
    /\ \E i \in 1..Len(gatewayLog) :
         gatewayLog[i].outcome = "step" /\ gatewayLog[i].status = None
    /\ \E i \in 1..Len(reviewLog) :
         /\ reviewLog[i].op = "review_conclusions"
         /\ reviewLog[i].reply # NoneText
         /\ LacksContinue(reviewLog[i].reply)


FromGatewayFailure(i) ==
    \E j \in 1..Len(gatewayLog) :
        /\ gatewayLog[j].nsteps = i - 1
        /\ gatewayLog[j].outcome \in {"raise", "truncated"}

\* every ToolCallStep of the ledger is IN_PROGRESS, or is ERROR and comes
\* from a gateway failure
C36_DispatchStatuses ==
    \A i \in 1..Len(steps) :
        IsToolCallStep(steps[i]) =>
            \/ steps[i].status = "IN_PROGRESS" /\ ~FromGatewayFailure(i)
            \/ steps[i].status = "ERROR" /\ FromGatewayFailure(i)

\* a run whose last reply held tool calls ends only with the overflow step
C36_EndsByOverflow ==
    (/\ pc \in {"done", "raised"}
     /\ gatewayLog # << >>
     /\ gatewayLog[Len(gatewayLog)].outcome = "tool_calls")
        => (pc = "done" /\ returned = OverflowStep)

\* C36: every ToolCallStep made from a tool dispatch is IN_PROGRESS and an
\* ERROR ToolCallStep comes only from a gateway failure; after a reply with
\* tool calls execute runs another iteration or halts through the overflow
\* step.
C36_Claim == C36_DispatchStatuses /\ C36_EndsByOverflow


\* the outer executor is through with the call of entry i of invokeLog
OuterPassOver(i) == i < Len(invokeLog) \/ outer_pc \in {"ready", "raised"}

\* C37: when the nested agent's run ends with status ERROR, the outer
\* executor records a step whose observation is "ERROR: " and the final
\* observation, counts the batch as erroneous and asks review_tool_call for
\* the next suggestion.
C37_Claim ==
    \A i \in 1..Len(invokeLog) :
        LET e == invokeLog[i] IN
        (e.final # NoStep /\ e.final.status = "ERROR" /\ OuterPassOver(i)) =>
            /\ e.recorded
            /\ Len(outer_steps) > Len(e.outer_before)
            /\ outer_steps[Len(e.outer_before) + 1].observation =
                 <<"E","R","R","O","R",":"," ">> \o e.final.observation
            /\ e.with_error
            /\ e.reviewed


\* how often a task occurs in a list
Occurrences(tasks, t) == Cardinality({ i \in 1..Len(tasks) : tasks[i] = t })

\* the tasks of a list of tasks, none for the list that is not loaded
TasksOf(tasks) == IF tasks = NoTasks THEN {} ELSE { tasks[i] : i \in 1..Len(tasks) }

====
